---- MODULE Spec2Model ----
(***************************************************************************)
(* Model of the restaurant recommendation bot of src/main.py: the enhanced *)
(* keyword matcher, the single-criterion filters, the comprehensive        *)
(* analyzer, the dish gate and get_recommendation.                         *)
(*                                                                         *)
(* Text is modelled as Python models it: a str is a sequence of Unicode    *)
(* code points (1087 is the letter "п"), a list is a sequence, a dict is a *)
(* function whose DOMAIN is its set of keys.  A confidence is kept in      *)
(* units of 1/10000 (1.0 is 10000, 0.9 is 9000) and an analyzer score in   *)
(* tenths (3.0 is 30), so that every comparison of the code is exact.      *)
(***************************************************************************)
EXTENDS Integers, Sequences, FiniteSets, TLC

VARIABLES
    config,           \* ENHANCED_SEARCH_CONFIG and FUZZY_AVAILABLE
    user_text,        \* matcher harness: the text handed to the matcher
    keywords,         \* matcher harness: the keyword list handed to the matcher
    match_result,     \* matcher harness: what _enhanced_keyword_match returned
    restaurants_data, \* the catalog: EnhancedRestaurantBot.restaurants_data
    user_request,     \* the request text
    restaurant_list,  \* filter harness: the list handed to the last filter call
    filter_op,        \* filter harness: the filter called last
    filter_result,    \* filter harness: what that call returned
    openai_client,    \* the global openai_client: "None" until the first call
    pc,               \* where the call of get_recommendation stands
    final_filtered,   \* the candidates listed in the prompt sent to the oracle
    oracle_calls,     \* how many times the oracle has been called
    oracle_outcome,   \* how the call of the oracle ended
    recommendation,   \* what get_recommendation returned
    choice_text,      \* the reply of the oracle (line 1201), None before it
    user_states,      \* the global user_states: user id -> stage
    user_last_recommendation, \* the global of that name: user id -> name
    user_rating_data, \* the global of that name: user id -> pending rating
    effective_user,   \* update.effective_user.id of the update handled last, 0 before
    sent,             \* the messages the handler of that update has sent
    handler_raised,   \* whether that handler ended by raising
    analytics_sheet,  \* EnhancedRestaurantBot.analytics_sheet: "None" or "sheet"
    analytics_rows,   \* the rows appended to the analytics sheet
    updates,          \* how many updates the application has dispatched
    pipeline_log      \* user id -> the type filters line 1134 chose for the user

vars == <<config, user_text, keywords, match_result, restaurants_data,
          user_request, restaurant_list, filter_op, filter_result,
          openai_client, pc, final_filtered, oracle_calls, oracle_outcome,
          recommendation, choice_text, user_states, user_last_recommendation,
          user_rating_data, effective_user, sent, handler_raised,
          analytics_sheet, analytics_rows, updates, pipeline_log>>

(***************************************************************************)
(* str primitives                                                          *)
(***************************************************************************)

\* A list given by a rule, held by value: SubSeq makes TLC compute every
\* element once instead of at each use.
ListOf(f) == SubSeq(f, 1, Len(f))

\* One character of str.lower(): ASCII A-Z, Cyrillic А-Я and Ѐ-Џ (І, Ї, Є), Ґ.
LowerChar(c) ==
    IF c \in 65..90 THEN c + 32
    ELSE IF c \in 1040..1071 THEN c + 32
    ELSE IF c \in 1024..1039 THEN c + 80
    ELSE IF c = 1168 THEN 1169
    ELSE c

\* str.lower()
Lower(s) == ListOf([i \in 1..Len(s) |-> LowerChar(s[i])])

\* Python's `k in t` for two str: k occurs in t as a contiguous substring.
Contains(k, t) ==
    \E i \in 0..(Len(t) - Len(k)) : \A j \in 1..Len(k) : t[i + j] = k[j]

\* any(keyword in text for keyword in kws)
AnyIn(kws, t) == \E n \in 1..Len(kws) : Contains(kws[n], t)

\* Whitespace as str.split() and str.strip() see it.
IsSpace(c) == c \in {9, 10, 11, 12, 13, 32}

\* str.split(): the maximal runs of non-whitespace characters, in order.
Split(t) ==
    LET starts == SelectSeq([i \in 1..Len(t) |-> i],
                            LAMBDA i : ~IsSpace(t[i]) /\ (i = 1 \/ IsSpace(t[i - 1])))
        EndOf(i) == CHOOSE j \in i..Len(t) :
                        /\ \A k \in i..j : ~IsSpace(t[k])
                        /\ j = Len(t) \/ IsSpace(t[j + 1])
    IN  ListOf([n \in 1..Len(starts) |-> SubSeq(t, starts[n], EndOf(starts[n]))])

\* str.strip()
Strip(t) ==
    LET keep == {i \in 1..Len(t) : ~IsSpace(t[i])}
    IN  IF keep = {} THEN <<>>
        ELSE LET lo == CHOOSE i \in keep : \A j \in keep : i <= j
                 hi == CHOOSE i \in keep : \A j \in keep : j <= i
             IN  SubSeq(t, lo, hi)

\* The regex class \w on str patterns: letters, digits and the underscore.
IsWordChar(c) ==
    \/ c \in 48..57
    \/ c \in 65..90
    \/ c \in 97..122
    \/ c = 95
    \/ c \in 1024..1153
    \/ c \in 1162..1279

\* The regex assertion \b at the gap after the first p characters of t.
WordBoundary(t, p) ==
    LET before == p >= 1 /\ IsWordChar(t[p])
        after == p < Len(t) /\ IsWordChar(t[p + 1])
    IN  before # after

\* re.search(r'\b' + re.escape(k) + r'\b', t) finds a match.
BoundarySearch(k, t) ==
    \E i \in 0..(Len(t) - Len(k)) :
        /\ \A j \in 1..Len(k) : t[i + j] = k[j]
        /\ WordBoundary(t, i)
        /\ WordBoundary(t, i + Len(k))

Max(a, b) == IF a >= b THEN a ELSE b
Min(a, b) == IF a <= b THEN a ELSE b

\* The largest element of a finite set of naturals, 0 for the empty set.
MaxOf(S) == IF S = {} THEN 0 ELSE CHOOSE x \in S : \A y \in S : y <= x

\* One row of the longest-common-subsequence table: the cell for the prefix
\* of b of length j - 1 stands at index j, and prev is the row of the text
\* without its last character ch.  The character is left out, or it is
\* matched with the last equal character of the prefix (the row never
\* decreases, so no earlier one does better).
LcsRow(ch, b, prev) ==
    ListOf([j \in 1..(Len(b) + 1) |->
        IF \E k \in 1..(j - 1) : b[k] = ch
        THEN Max(prev[j], 1 + prev[CHOOSE k \in 1..(j - 1) :
                                      b[k] = ch /\ \A m \in (k + 1)..(j - 1) : b[m] # ch])
        ELSE prev[j]])

\* The last cell of the table, prev being the row for the first i - 1
\* characters of a.  Once the whole of b is matched no row can add to it.
RECURSIVE LcsFrom(_, _, _, _)
LcsFrom(a, b, i, prev) ==
    IF prev[Len(b) + 1] = Len(b) \/ i > Len(a) THEN prev[Len(b) + 1]
    ELSE LcsFrom(a, b, i + 1, LcsRow(a[i], b, prev))

\* Length of a longest common subsequence of a and b.  A character that the
\* other text lacks is in no common subsequence and is dropped beforehand.
Lcs(a, b) ==
    LET a_common == SelectSeq(a, LAMBDA c : \E j \in 1..Len(b) : b[j] = c)
        b_common == SelectSeq(b, LAMBDA c : \E i \in 1..Len(a) : a[i] = c)
    IN  LcsFrom(a_common, b_common, 1, [j \in 1..(Len(b_common) + 1) |-> 0])

\* round() of the fraction x / t: to nearest, ties to the even integer.
RoundHalfEven(x, t) ==
    LET q == x \div t
        r == x % t
    IN  IF 2 * r > t THEN q + 1
        ELSE IF 2 * r < t THEN q
        ELSE IF q % 2 = 0 THEN q ELSE q + 1

\* fuzz.ratio(a, b): 100 for equal strings, 0 when one is empty, otherwise
\* 100 * 2M / (len(a) + len(b)) rounded, M the number of matched characters.
FuzzRatio(a, b) ==
    IF a = b THEN 100
    ELSE IF Len(a) = 0 \/ Len(b) = 0 THEN 0
    ELSE RoundHalfEven(200 * Lcs(a, b), Len(a) + Len(b))

\* dict.get(key, default)
Get(d, key, default) == IF key \in DOMAIN d THEN d[key] ELSE default

(***************************************************************************)
(* Keyword tables of the source, in the order of the dicts                 *)
(***************************************************************************)
\* __init__: extended_synonyms (src/main.py lines 62-78)
extended_synonyms ==
  <<
    \* 'ресторан': ['ресторан', 'ресторани', 'ресторанчик', 'їдальня', 'заклад']
    [base_word |-> <<1088,1077,1089,1090,1086,1088,1072,1085>>,
     synonyms |-> <<<<1088,1077,1089,1090,1086,1088,1072,1085>>, <<1088,1077,1089,1090,1086,1088,1072,1085,1080>>, <<1088,1077,1089,1090,1086,1088,1072,1085,1095,1080,1082>>, <<1111,1076,1072,1083,1100,1085,1103>>, <<1079,1072,1082,1083,1072,1076>>>>],
    \* "кав'ярня": ["кав'ярня", 'кафе', 'кава', 'каварня', 'coffee', 'кофе']
    [base_word |-> <<1082,1072,1074,39,1103,1088,1085,1103>>,
     synonyms |-> <<<<1082,1072,1074,39,1103,1088,1085,1103>>, <<1082,1072,1092,1077>>, <<1082,1072,1074,1072>>, <<1082,1072,1074,1072,1088,1085,1103>>, <<99,111,102,102,101,101>>, <<1082,1086,1092,1077>>>>],
    \* 'піца': ['піца', 'піцца', 'pizza', 'піци', 'піззу']
    [base_word |-> <<1087,1110,1094,1072>>,
     synonyms |-> <<<<1087,1110,1094,1072>>, <<1087,1110,1094,1094,1072>>, <<112,105,122,122,97>>, <<1087,1110,1094,1080>>, <<1087,1110,1079,1079,1091>>>>],
    \* 'суші': ['суші', 'sushi', 'роли', 'роллы', 'сашімі']
    [base_word |-> <<1089,1091,1096,1110>>,
     synonyms |-> <<<<1089,1091,1096,1110>>, <<115,117,115,104,105>>, <<1088,1086,1083,1080>>, <<1088,1086,1083,1083,1099>>, <<1089,1072,1096,1110,1084,1110>>>>],
    \* 'бургер': ['бургер', 'burger', 'гамбургер', 'чізбургер']
    [base_word |-> <<1073,1091,1088,1075,1077,1088>>,
     synonyms |-> <<<<1073,1091,1088,1075,1077,1088>>, <<98,117,114,103,101,114>>, <<1075,1072,1084,1073,1091,1088,1075,1077,1088>>, <<1095,1110,1079,1073,1091,1088,1075,1077,1088>>>>],
    \* 'романтик': ['романтик', 'романтичний', 'побачення', 'інтимний', 'затишний', 'свічки']
    [base_word |-> <<1088,1086,1084,1072,1085,1090,1080,1082>>,
     synonyms |-> <<<<1088,1086,1084,1072,1085,1090,1080,1082>>, <<1088,1086,1084,1072,1085,1090,1080,1095,1085,1080,1081>>, <<1087,1086,1073,1072,1095,1077,1085,1085,1103>>, <<1110,1085,1090,1080,1084,1085,1080,1081>>, <<1079,1072,1090,1080,1096,1085,1080,1081>>, <<1089,1074,1110,1095,1082,1080>>>>],
    \* 'сімейний': ['сімейний', "сім'я", 'родина', 'діти', 'дитячий', "для всієї сім'ї"]
    [base_word |-> <<1089,1110,1084,1077,1081,1085,1080,1081>>,
     synonyms |-> <<<<1089,1110,1084,1077,1081,1085,1080,1081>>, <<1089,1110,1084,39,1103>>, <<1088,1086,1076,1080,1085,1072>>, <<1076,1110,1090,1080>>, <<1076,1080,1090,1103,1095,1080,1081>>, <<1076,1083,1103,32,1074,1089,1110,1108,1111,32,1089,1110,1084,39,1111>>>>],
    \* 'веселий': ['веселий', 'жвавий', 'енергійний', 'гучний', 'драйвовий', 'молодіжний']
    [base_word |-> <<1074,1077,1089,1077,1083,1080,1081>>,
     synonyms |-> <<<<1074,1077,1089,1077,1083,1080,1081>>, <<1078,1074,1072,1074,1080,1081>>, <<1077,1085,1077,1088,1075,1110,1081,1085,1080,1081>>, <<1075,1091,1095,1085,1080,1081>>, <<1076,1088,1072,1081,1074,1086,1074,1080,1081>>, <<1084,1086,1083,1086,1076,1110,1078,1085,1080,1081>>>>],
    \* 'швидко': ['швидко', 'швидку', 'швидкий', 'fast', 'перекус', 'поспішаю', 'на швидку руку']
    [base_word |-> <<1096,1074,1080,1076,1082,1086>>,
     synonyms |-> <<<<1096,1074,1080,1076,1082,1086>>, <<1096,1074,1080,1076,1082,1091>>, <<1096,1074,1080,1076,1082,1080,1081>>, <<102,97,115,116>>, <<1087,1077,1088,1077,1082,1091,1089>>, <<1087,1086,1089,1087,1110,1096,1072,1102>>, <<1085,1072,32,1096,1074,1080,1076,1082,1091,32,1088,1091,1082,1091>>>>],
    \* 'доставка': ['доставка', 'додому', 'не хочу йти', 'привезти', 'delivery']
    [base_word |-> <<1076,1086,1089,1090,1072,1074,1082,1072>>,
     synonyms |-> <<<<1076,1086,1089,1090,1072,1074,1082,1072>>, <<1076,1086,1076,1086,1084,1091>>, <<1085,1077,32,1093,1086,1095,1091,32,1081,1090,1080>>, <<1087,1088,1080,1074,1077,1079,1090,1080>>, <<100,101,108,105,118,101,114,121>>>>]
  >>

\* __init__: negation_words (src/main.py lines 81-84)
\* ['не', 'ні', 'ніколи', 'ніде', 'без', 'нема', 'немає', 'не хочу', 'не люблю', 'не подобається', 'не треба']
negation_words ==
    <<<<1085,1077>>, <<1085,1110>>, <<1085,1110,1082,1086,1083,1080>>, <<1085,1110,1076,1077>>, <<1073,1077,1079>>, <<1085,1077,1084,1072>>, <<1085,1077,1084,1072,1108>>, <<1085,1077,32,1093,1086,1095,1091>>, <<1085,1077,32,1083,1102,1073,1083,1102>>, <<1085,1077,32,1087,1086,1076,1086,1073,1072,1108,1090,1100,1089,1103>>, <<1085,1077,32,1090,1088,1077,1073,1072>>>>

\* _check_dish_availability: food_keywords (src/main.py lines 255-278)
check_food_keywords ==
  <<
    \* 'піца': ['піца', 'піцц', 'pizza', 'піци', 'піззу']
    [dish |-> <<1087,1110,1094,1072>>,
     keywords |-> <<<<1087,1110,1094,1072>>, <<1087,1110,1094,1094>>, <<112,105,122,122,97>>, <<1087,1110,1094,1080>>, <<1087,1110,1079,1079,1091>>>>],
    \* 'паста': ['паста', 'спагеті', 'pasta', 'спагетті', 'макарони']
    [dish |-> <<1087,1072,1089,1090,1072>>,
     keywords |-> <<<<1087,1072,1089,1090,1072>>, <<1089,1087,1072,1075,1077,1090,1110>>, <<112,97,115,116,97>>, <<1089,1087,1072,1075,1077,1090,1090,1110>>, <<1084,1072,1082,1072,1088,1086,1085,1080>>>>],
    \* 'бургер': ['бургер', 'burger', 'гамбургер', 'чізбургер']
    [dish |-> <<1073,1091,1088,1075,1077,1088>>,
     keywords |-> <<<<1073,1091,1088,1075,1077,1088>>, <<98,117,114,103,101,114>>, <<1075,1072,1084,1073,1091,1088,1075,1077,1088>>, <<1095,1110,1079,1073,1091,1088,1075,1077,1088>>>>],
    \* 'суші': ['суші', 'sushi', 'роли', 'ролл', 'сашімі']
    [dish |-> <<1089,1091,1096,1110>>,
     keywords |-> <<<<1089,1091,1096,1110>>, <<115,117,115,104,105>>, <<1088,1086,1083,1080>>, <<1088,1086,1083,1083>>, <<1089,1072,1096,1110,1084,1110>>>>],
    \* 'салат': ['салат', 'salad']
    [dish |-> <<1089,1072,1083,1072,1090>>,
     keywords |-> <<<<1089,1072,1083,1072,1090>>, <<115,97,108,97,100>>>>],
    \* 'хумус': ['хумус', 'hummus']
    [dish |-> <<1093,1091,1084,1091,1089>>,
     keywords |-> <<<<1093,1091,1084,1091,1089>>, <<104,117,109,109,117,115>>>>],
    \* 'фалафель': ['фалафель', 'falafel']
    [dish |-> <<1092,1072,1083,1072,1092,1077,1083,1100>>,
     keywords |-> <<<<1092,1072,1083,1072,1092,1077,1083,1100>>, <<102,97,108,97,102,101,108>>>>],
    \* 'шаурма': ['шаурм', 'shawarma', 'шаверма']
    [dish |-> <<1096,1072,1091,1088,1084,1072>>,
     keywords |-> <<<<1096,1072,1091,1088,1084>>, <<115,104,97,119,97,114,109,97>>, <<1096,1072,1074,1077,1088,1084,1072>>>>],
    \* 'стейк': ['стейк', 'steak', "м'ясо", 'біфштекс']
    [dish |-> <<1089,1090,1077,1081,1082>>,
     keywords |-> <<<<1089,1090,1077,1081,1082>>, <<115,116,101,97,107>>, <<1084,39,1103,1089,1086>>, <<1073,1110,1092,1096,1090,1077,1082,1089>>>>],
    \* 'риба': ['риба', 'fish', 'лосось', 'семга', 'тунець', 'форель']
    [dish |-> <<1088,1080,1073,1072>>,
     keywords |-> <<<<1088,1080,1073,1072>>, <<102,105,115,104>>, <<1083,1086,1089,1086,1089,1100>>, <<1089,1077,1084,1075,1072>>, <<1090,1091,1085,1077,1094,1100>>, <<1092,1086,1088,1077,1083,1100>>>>],
    \* 'курка': ['курк', 'курчат', 'chicken', 'курица']
    [dish |-> <<1082,1091,1088,1082,1072>>,
     keywords |-> <<<<1082,1091,1088,1082>>, <<1082,1091,1088,1095,1072,1090>>, <<99,104,105,99,107,101,110>>, <<1082,1091,1088,1080,1094,1072>>>>],
    \* 'десерт': ['десерт', 'торт', 'тірамісу', 'морозиво', 'чізкейк', 'тістечко']
    [dish |-> <<1076,1077,1089,1077,1088,1090>>,
     keywords |-> <<<<1076,1077,1089,1077,1088,1090>>, <<1090,1086,1088,1090>>, <<1090,1110,1088,1072,1084,1110,1089,1091>>, <<1084,1086,1088,1086,1079,1080,1074,1086>>, <<1095,1110,1079,1082,1077,1081,1082>>, <<1090,1110,1089,1090,1077,1095,1082,1086>>>>],
    \* 'мідії': ['мідії', 'мидии', 'мідія', 'молюски', 'мідій']
    [dish |-> <<1084,1110,1076,1110,1111>>,
     keywords |-> <<<<1084,1110,1076,1110,1111>>, <<1084,1080,1076,1080,1080>>, <<1084,1110,1076,1110,1103>>, <<1084,1086,1083,1102,1089,1082,1080>>, <<1084,1110,1076,1110,1081>>>>],
    \* 'креветки': ['креветки', 'креветка', 'shrimp', 'prawns']
    [dish |-> <<1082,1088,1077,1074,1077,1090,1082,1080>>,
     keywords |-> <<<<1082,1088,1077,1074,1077,1090,1082,1080>>, <<1082,1088,1077,1074,1077,1090,1082,1072>>, <<115,104,114,105,109,112>>, <<112,114,97,119,110,115>>>>],
    \* 'устриці': ['устриці', 'устрица', 'oysters']
    [dish |-> <<1091,1089,1090,1088,1080,1094,1110>>,
     keywords |-> <<<<1091,1089,1090,1088,1080,1094,1110>>, <<1091,1089,1090,1088,1080,1094,1072>>, <<111,121,115,116,101,114,115>>>>],
    \* 'каламари': ['каламари', 'кальмари', 'squid']
    [dish |-> <<1082,1072,1083,1072,1084,1072,1088,1080>>,
     keywords |-> <<<<1082,1072,1083,1072,1084,1072,1088,1080>>, <<1082,1072,1083,1100,1084,1072,1088,1080>>, <<115,113,117,105,100>>>>],
    \* 'равіолі': ['равіолі', 'ravioli', 'равиоли']
    [dish |-> <<1088,1072,1074,1110,1086,1083,1110>>,
     keywords |-> <<<<1088,1072,1074,1110,1086,1083,1110>>, <<114,97,118,105,111,108,105>>, <<1088,1072,1074,1080,1086,1083,1080>>>>],
    \* 'лазанья': ['лазанья', 'lasagna', 'лазања']
    [dish |-> <<1083,1072,1079,1072,1085,1100,1103>>,
     keywords |-> <<<<1083,1072,1079,1072,1085,1100,1103>>, <<108,97,115,97,103,110,97>>, <<1083,1072,1079,1072,1114,1072>>>>],
    \* 'різотто': ['різотто', 'risotto', 'ризотто']
    [dish |-> <<1088,1110,1079,1086,1090,1090,1086>>,
     keywords |-> <<<<1088,1110,1079,1086,1090,1090,1086>>, <<114,105,115,111,116,116,111>>, <<1088,1080,1079,1086,1090,1090,1086>>>>],
    \* 'гнокі': ['гноки', 'gnocchi', 'ньокі']
    [dish |-> <<1075,1085,1086,1082,1110>>,
     keywords |-> <<<<1075,1085,1086,1082,1080>>, <<103,110,111,99,99,104,105>>, <<1085,1100,1086,1082,1110>>>>],
    \* 'тартар': ['тартар', 'tartar']
    [dish |-> <<1090,1072,1088,1090,1072,1088>>,
     keywords |-> <<<<1090,1072,1088,1090,1072,1088>>, <<116,97,114,116,97,114>>>>],
    \* 'карпачо': ['карпачо', 'carpaccio']
    [dish |-> <<1082,1072,1088,1087,1072,1095,1086>>,
     keywords |-> <<<<1082,1072,1088,1087,1072,1095,1086>>, <<99,97,114,112,97,99,99,105,111>>>>]
  >>

\* _comprehensive_content_analysis: search_criteria (src/main.py lines 490-592); weight in tenths (3.0 -> 30)
search_criteria ==
  <<
    \* 'матча': keywords ['матча', 'matcha', 'матчі', 'матчу']
    \*   columns ['menu', 'aim', 'vibe', 'cuisine', 'name'], weight 3.0
    [criterion_name |-> <<1084,1072,1090,1095,1072>>,
     keywords |-> <<<<1084,1072,1090,1095,1072>>, <<109,97,116,99,104,97>>, <<1084,1072,1090,1095,1110>>, <<1084,1072,1090,1095,1091>>>>,
     columns |-> <<<<109,101,110,117>>, <<97,105,109>>, <<118,105,98,101>>, <<99,117,105,115,105,110,101>>, <<110,97,109,101>>>>,
     weight |-> 30],
    \* 'кава': keywords ['кава', 'кофе', 'coffee', 'капучіно', 'латте', 'еспресо']
    \*   columns ['menu', 'aim', 'cuisine', 'name'], weight 2.5
    [criterion_name |-> <<1082,1072,1074,1072>>,
     keywords |-> <<<<1082,1072,1074,1072>>, <<1082,1086,1092,1077>>, <<99,111,102,102,101,101>>, <<1082,1072,1087,1091,1095,1110,1085,1086>>, <<1083,1072,1090,1090,1077>>, <<1077,1089,1087,1088,1077,1089,1086>>>>,
     columns |-> <<<<109,101,110,117>>, <<97,105,109>>, <<99,117,105,115,105,110,101>>, <<110,97,109,101>>>>,
     weight |-> 25],
    \* 'піца': keywords ['піца', 'піцц', 'pizza']
    \*   columns ['menu', 'cuisine', 'name'], weight 3.0
    [criterion_name |-> <<1087,1110,1094,1072>>,
     keywords |-> <<<<1087,1110,1094,1072>>, <<1087,1110,1094,1094>>, <<112,105,122,122,97>>>>,
     columns |-> <<<<109,101,110,117>>, <<99,117,105,115,105,110,101>>, <<110,97,109,101>>>>,
     weight |-> 30],
    \* 'суші': keywords ['суші', 'sushi', 'роли', 'ролл', 'сашімі']
    \*   columns ['menu', 'cuisine', 'name'], weight 3.0
    [criterion_name |-> <<1089,1091,1096,1110>>,
     keywords |-> <<<<1089,1091,1096,1110>>, <<115,117,115,104,105>>, <<1088,1086,1083,1080>>, <<1088,1086,1083,1083>>, <<1089,1072,1096,1110,1084,1110>>>>,
     columns |-> <<<<109,101,110,117>>, <<99,117,105,115,105,110,101>>, <<110,97,109,101>>>>,
     weight |-> 30],
    \* 'паста': keywords ['паста', 'pasta', 'спагеті']
    \*   columns ['menu', 'cuisine'], weight 2.5
    [criterion_name |-> <<1087,1072,1089,1090,1072>>,
     keywords |-> <<<<1087,1072,1089,1090,1072>>, <<112,97,115,116,97>>, <<1089,1087,1072,1075,1077,1090,1110>>>>,
     columns |-> <<<<109,101,110,117>>, <<99,117,105,115,105,110,101>>>>,
     weight |-> 25],
    \* 'мідії': keywords ['мідії', 'мідія', 'мідій', 'молюски']
    \*   columns ['menu', 'cuisine'], weight 3.0
    [criterion_name |-> <<1084,1110,1076,1110,1111>>,
     keywords |-> <<<<1084,1110,1076,1110,1111>>, <<1084,1110,1076,1110,1103>>, <<1084,1110,1076,1110,1081>>, <<1084,1086,1083,1102,1089,1082,1080>>>>,
     columns |-> <<<<109,101,110,117>>, <<99,117,105,115,105,110,101>>>>,
     weight |-> 30],
    \* 'ресторан': keywords ['ресторан', 'ресторани', 'їдальня']
    \*   columns ['type', 'тип закладу', 'aim'], weight 2.0
    [criterion_name |-> <<1088,1077,1089,1090,1086,1088,1072,1085>>,
     keywords |-> <<<<1088,1077,1089,1090,1086,1088,1072,1085>>, <<1088,1077,1089,1090,1086,1088,1072,1085,1080>>, <<1111,1076,1072,1083,1100,1085,1103>>>>,
     columns |-> <<<<116,121,112,101>>, <<1090,1080,1087,32,1079,1072,1082,1083,1072,1076,1091>>, <<97,105,109>>>>,
     weight |-> 20],
    \* "кав'ярня": keywords ["кав'ярня", 'кафе', 'coffee shop']
    \*   columns ['type', 'тип закладу', 'aim'], weight 2.0
    [criterion_name |-> <<1082,1072,1074,39,1103,1088,1085,1103>>,
     keywords |-> <<<<1082,1072,1074,39,1103,1088,1085,1103>>, <<1082,1072,1092,1077>>, <<99,111,102,102,101,101,32,115,104,111,112>>>>,
     columns |-> <<<<116,121,112,101>>, <<1090,1080,1087,32,1079,1072,1082,1083,1072,1076,1091>>, <<97,105,109>>>>,
     weight |-> 20],
    \* 'романтично': keywords ['романт', 'побачення', 'інтимн', 'затишн']
    \*   columns ['vibe', 'aim'], weight 2.0
    [criterion_name |-> <<1088,1086,1084,1072,1085,1090,1080,1095,1085,1086>>,
     keywords |-> <<<<1088,1086,1084,1072,1085,1090>>, <<1087,1086,1073,1072,1095,1077,1085,1085,1103>>, <<1110,1085,1090,1080,1084,1085>>, <<1079,1072,1090,1080,1096,1085>>>>,
     columns |-> <<<<118,105,98,101>>, <<97,105,109>>>>,
     weight |-> 20],
    \* 'сімейно': keywords ["сім'я", 'сімейн', 'діти', 'родин']
    \*   columns ['vibe', 'aim'], weight 2.0
    [criterion_name |-> <<1089,1110,1084,1077,1081,1085,1086>>,
     keywords |-> <<<<1089,1110,1084,39,1103>>, <<1089,1110,1084,1077,1081,1085>>, <<1076,1110,1090,1080>>, <<1088,1086,1076,1080,1085>>>>,
     columns |-> <<<<118,105,98,101>>, <<97,105,109>>>>,
     weight |-> 20],
    \* 'друзі': keywords ['друз', 'компан', 'гурт']
    \*   columns ['aim', 'vibe'], weight 2.0
    [criterion_name |-> <<1076,1088,1091,1079,1110>>,
     keywords |-> <<<<1076,1088,1091,1079>>, <<1082,1086,1084,1087,1072,1085>>, <<1075,1091,1088,1090>>>>,
     columns |-> <<<<97,105,109>>, <<118,105,98,101>>>>,
     weight |-> 20],
    \* 'працювати': keywords ['працювати', 'попрацювати', 'робота', 'ноутбук']
    \*   columns ['aim'], weight 2.5
    [criterion_name |-> <<1087,1088,1072,1094,1102,1074,1072,1090,1080>>,
     keywords |-> <<<<1087,1088,1072,1094,1102,1074,1072,1090,1080>>, <<1087,1086,1087,1088,1072,1094,1102,1074,1072,1090,1080>>, <<1088,1086,1073,1086,1090,1072>>, <<1085,1086,1091,1090,1073,1091,1082>>>>,
     columns |-> <<<<97,105,109>>>>,
     weight |-> 25],
    \* 'сніданок': keywords ['сніданок', 'ранок', 'зранку']
    \*   columns ['aim', 'menu'], weight 2.0
    [criterion_name |-> <<1089,1085,1110,1076,1072,1085,1086,1082>>,
     keywords |-> <<<<1089,1085,1110,1076,1072,1085,1086,1082>>, <<1088,1072,1085,1086,1082>>, <<1079,1088,1072,1085,1082,1091>>>>,
     columns |-> <<<<97,105,109>>, <<109,101,110,117>>>>,
     weight |-> 20],
    \* 'обід': keywords ['обід', 'пообідати']
    \*   columns ['aim'], weight 1.5
    [criterion_name |-> <<1086,1073,1110,1076>>,
     keywords |-> <<<<1086,1073,1110,1076>>, <<1087,1086,1086,1073,1110,1076,1072,1090,1080>>>>,
     columns |-> <<<<97,105,109>>>>,
     weight |-> 15],
    \* 'вечеря': keywords ['вечер', 'повечеряти']
    \*   columns ['aim'], weight 1.5
    [criterion_name |-> <<1074,1077,1095,1077,1088,1103>>,
     keywords |-> <<<<1074,1077,1095,1077,1088>>, <<1087,1086,1074,1077,1095,1077,1088,1103,1090,1080>>>>,
     columns |-> <<<<97,105,109>>>>,
     weight |-> 15],
    \* 'італійський': keywords ['італ', 'italian', 'італійськ']
    \*   columns ['cuisine', 'vibe', 'name'], weight 2.0
    [criterion_name |-> <<1110,1090,1072,1083,1110,1081,1089,1100,1082,1080,1081>>,
     keywords |-> <<<<1110,1090,1072,1083>>, <<105,116,97,108,105,97,110>>, <<1110,1090,1072,1083,1110,1081,1089,1100,1082>>>>,
     columns |-> <<<<99,117,105,115,105,110,101>>, <<118,105,98,101>>, <<110,97,109,101>>>>,
     weight |-> 20],
    \* 'японський': keywords ['япон', 'japanese', 'азійськ']
    \*   columns ['cuisine', 'vibe'], weight 2.0
    [criterion_name |-> <<1103,1087,1086,1085,1089,1100,1082,1080,1081>>,
     keywords |-> <<<<1103,1087,1086,1085>>, <<106,97,112,97,110,101,115,101>>, <<1072,1079,1110,1081,1089,1100,1082>>>>,
     columns |-> <<<<99,117,105,115,105,110,101>>, <<118,105,98,101>>>>,
     weight |-> 20],
    \* 'грузинський': keywords ['грузин', 'georgian']
    \*   columns ['cuisine', 'vibe', 'name'], weight 2.0
    [criterion_name |-> <<1075,1088,1091,1079,1080,1085,1089,1100,1082,1080,1081>>,
     keywords |-> <<<<1075,1088,1091,1079,1080,1085>>, <<103,101,111,114,103,105,97,110>>>>,
     columns |-> <<<<99,117,105,115,105,110,101>>, <<118,105,98,101>>, <<110,97,109,101>>>>,
     weight |-> 20]
  >>

\* _get_dish_keywords: food_keywords (src/main.py lines 652-675)
dish_food_keywords ==
  <<
    \* 'піца': ['піца', 'піцц', 'pizza', 'піци', 'піззу']
    [dish |-> <<1087,1110,1094,1072>>,
     keywords |-> <<<<1087,1110,1094,1072>>, <<1087,1110,1094,1094>>, <<112,105,122,122,97>>, <<1087,1110,1094,1080>>, <<1087,1110,1079,1079,1091>>>>],
    \* 'паста': ['паста', 'спагеті', 'pasta', 'спагетті', 'макарони']
    [dish |-> <<1087,1072,1089,1090,1072>>,
     keywords |-> <<<<1087,1072,1089,1090,1072>>, <<1089,1087,1072,1075,1077,1090,1110>>, <<112,97,115,116,97>>, <<1089,1087,1072,1075,1077,1090,1090,1110>>, <<1084,1072,1082,1072,1088,1086,1085,1080>>>>],
    \* 'бургер': ['бургер', 'burger', 'гамбургер', 'чізбургер']
    [dish |-> <<1073,1091,1088,1075,1077,1088>>,
     keywords |-> <<<<1073,1091,1088,1075,1077,1088>>, <<98,117,114,103,101,114>>, <<1075,1072,1084,1073,1091,1088,1075,1077,1088>>, <<1095,1110,1079,1073,1091,1088,1075,1077,1088>>>>],
    \* 'суші': ['суші', 'sushi', 'роли', 'ролл', 'сашімі']
    [dish |-> <<1089,1091,1096,1110>>,
     keywords |-> <<<<1089,1091,1096,1110>>, <<115,117,115,104,105>>, <<1088,1086,1083,1080>>, <<1088,1086,1083,1083>>, <<1089,1072,1096,1110,1084,1110>>>>],
    \* 'салат': ['салат', 'salad']
    [dish |-> <<1089,1072,1083,1072,1090>>,
     keywords |-> <<<<1089,1072,1083,1072,1090>>, <<115,97,108,97,100>>>>],
    \* 'хумус': ['хумус', 'hummus']
    [dish |-> <<1093,1091,1084,1091,1089>>,
     keywords |-> <<<<1093,1091,1084,1091,1089>>, <<104,117,109,109,117,115>>>>],
    \* 'фалафель': ['фалафель', 'falafel']
    [dish |-> <<1092,1072,1083,1072,1092,1077,1083,1100>>,
     keywords |-> <<<<1092,1072,1083,1072,1092,1077,1083,1100>>, <<102,97,108,97,102,101,108>>>>],
    \* 'шаурма': ['шаурм', 'shawarma', 'шаверма']
    [dish |-> <<1096,1072,1091,1088,1084,1072>>,
     keywords |-> <<<<1096,1072,1091,1088,1084>>, <<115,104,97,119,97,114,109,97>>, <<1096,1072,1074,1077,1088,1084,1072>>>>],
    \* 'стейк': ['стейк', 'steak', "м'ясо", 'біфштекс']
    [dish |-> <<1089,1090,1077,1081,1082>>,
     keywords |-> <<<<1089,1090,1077,1081,1082>>, <<115,116,101,97,107>>, <<1084,39,1103,1089,1086>>, <<1073,1110,1092,1096,1090,1077,1082,1089>>>>],
    \* 'риба': ['риба', 'fish', 'лосось', 'семга', 'тунець', 'форель']
    [dish |-> <<1088,1080,1073,1072>>,
     keywords |-> <<<<1088,1080,1073,1072>>, <<102,105,115,104>>, <<1083,1086,1089,1086,1089,1100>>, <<1089,1077,1084,1075,1072>>, <<1090,1091,1085,1077,1094,1100>>, <<1092,1086,1088,1077,1083,1100>>>>],
    \* 'курка': ['курк', 'курчат', 'chicken', 'курица']
    [dish |-> <<1082,1091,1088,1082,1072>>,
     keywords |-> <<<<1082,1091,1088,1082>>, <<1082,1091,1088,1095,1072,1090>>, <<99,104,105,99,107,101,110>>, <<1082,1091,1088,1080,1094,1072>>>>],
    \* 'десерт': ['десерт', 'торт', 'тірамісу', 'морозиво', 'чізкейк', 'тістечко']
    [dish |-> <<1076,1077,1089,1077,1088,1090>>,
     keywords |-> <<<<1076,1077,1089,1077,1088,1090>>, <<1090,1086,1088,1090>>, <<1090,1110,1088,1072,1084,1110,1089,1091>>, <<1084,1086,1088,1086,1079,1080,1074,1086>>, <<1095,1110,1079,1082,1077,1081,1082>>, <<1090,1110,1089,1090,1077,1095,1082,1086>>>>],
    \* 'мідії': ['мідії', 'мидии', 'мідія', 'молюски', 'мідій']
    [dish |-> <<1084,1110,1076,1110,1111>>,
     keywords |-> <<<<1084,1110,1076,1110,1111>>, <<1084,1080,1076,1080,1080>>, <<1084,1110,1076,1110,1103>>, <<1084,1086,1083,1102,1089,1082,1080>>, <<1084,1110,1076,1110,1081>>>>],
    \* 'креветки': ['креветки', 'креветка', 'shrimp', 'prawns']
    [dish |-> <<1082,1088,1077,1074,1077,1090,1082,1080>>,
     keywords |-> <<<<1082,1088,1077,1074,1077,1090,1082,1080>>, <<1082,1088,1077,1074,1077,1090,1082,1072>>, <<115,104,114,105,109,112>>, <<112,114,97,119,110,115>>>>],
    \* 'устриці': ['устриці', 'устрица', 'oysters']
    [dish |-> <<1091,1089,1090,1088,1080,1094,1110>>,
     keywords |-> <<<<1091,1089,1090,1088,1080,1094,1110>>, <<1091,1089,1090,1088,1080,1094,1072>>, <<111,121,115,116,101,114,115>>>>],
    \* 'каламари': ['каламари', 'кальмари', 'squid']
    [dish |-> <<1082,1072,1083,1072,1084,1072,1088,1080>>,
     keywords |-> <<<<1082,1072,1083,1072,1084,1072,1088,1080>>, <<1082,1072,1083,1100,1084,1072,1088,1080>>, <<115,113,117,105,100>>>>],
    \* 'равіолі': ['равіолі', 'ravioli', 'равиоли']
    [dish |-> <<1088,1072,1074,1110,1086,1083,1110>>,
     keywords |-> <<<<1088,1072,1074,1110,1086,1083,1110>>, <<114,97,118,105,111,108,105>>, <<1088,1072,1074,1080,1086,1083,1080>>>>],
    \* 'лазанья': ['лазанья', 'lasagna', 'лазања']
    [dish |-> <<1083,1072,1079,1072,1085,1100,1103>>,
     keywords |-> <<<<1083,1072,1079,1072,1085,1100,1103>>, <<108,97,115,97,103,110,97>>, <<1083,1072,1079,1072,1114,1072>>>>],
    \* 'різотто': ['різотто', 'risotto', 'ризотто']
    [dish |-> <<1088,1110,1079,1086,1090,1090,1086>>,
     keywords |-> <<<<1088,1110,1079,1086,1090,1090,1086>>, <<114,105,115,111,116,116,111>>, <<1088,1080,1079,1086,1090,1090,1086>>>>],
    \* 'гнокі': ['гноки', 'gnocchi', 'ньокі']
    [dish |-> <<1075,1085,1086,1082,1110>>,
     keywords |-> <<<<1075,1085,1086,1082,1080>>, <<103,110,111,99,99,104,105>>, <<1085,1100,1086,1082,1110>>>>],
    \* 'тартар': ['тартар', 'tartar']
    [dish |-> <<1090,1072,1088,1090,1072,1088>>,
     keywords |-> <<<<1090,1072,1088,1090,1072,1088>>, <<116,97,114,116,97,114>>>>],
    \* 'карпачо': ['карпачо', 'carpaccio']
    [dish |-> <<1082,1072,1088,1087,1072,1095,1086>>,
     keywords |-> <<<<1082,1072,1088,1087,1072,1095,1086>>, <<99,97,114,112,97,99,99,105,111>>>>]
  >>

\* _enhanced_filter_by_establishment_type: enhanced_type_keywords (src/main.py lines 688-705)
enhanced_type_keywords ==
  <<
    \* 'ресторан': user_keywords ['ресторан', 'ресторани', 'ресторанчик', 'обід', 'вечеря', 'побачення', 'романтик', 'святкування', 'банкет', 'посідіти', 'поїсти', 'заклад']
    \*   establishment_types ['ресторан']
    [establishment_type |-> <<1088,1077,1089,1090,1086,1088,1072,1085>>,
     user_keywords |-> <<<<1088,1077,1089,1090,1086,1088,1072,1085>>, <<1088,1077,1089,1090,1086,1088,1072,1085,1080>>, <<1088,1077,1089,1090,1086,1088,1072,1085,1095,1080,1082>>, <<1086,1073,1110,1076>>, <<1074,1077,1095,1077,1088,1103>>, <<1087,1086,1073,1072,1095,1077,1085,1085,1103>>, <<1088,1086,1084,1072,1085,1090,1080,1082>>, <<1089,1074,1103,1090,1082,1091,1074,1072,1085,1085,1103>>, <<1073,1072,1085,1082,1077,1090>>, <<1087,1086,1089,1110,1076,1110,1090,1080>>, <<1087,1086,1111,1089,1090,1080>>, <<1079,1072,1082,1083,1072,1076>>>>,
     establishment_types |-> <<<<1088,1077,1089,1090,1086,1088,1072,1085>>>>],
    \* "кав'ярня": user_keywords ['кава', 'капучіно', 'латте', 'еспресо', "кав'ярня", 'десерт', 'тірамісу', 'круасан', 'випити кави', 'кофе', 'кафе', 'coffee']
    \*   establishment_types ["кав'ярня", 'кафе']
    [establishment_type |-> <<1082,1072,1074,39,1103,1088,1085,1103>>,
     user_keywords |-> <<<<1082,1072,1074,1072>>, <<1082,1072,1087,1091,1095,1110,1085,1086>>, <<1083,1072,1090,1090,1077>>, <<1077,1089,1087,1088,1077,1089,1086>>, <<1082,1072,1074,39,1103,1088,1085,1103>>, <<1076,1077,1089,1077,1088,1090>>, <<1090,1110,1088,1072,1084,1110,1089,1091>>, <<1082,1088,1091,1072,1089,1072,1085>>, <<1074,1080,1087,1080,1090,1080,32,1082,1072,1074,1080>>, <<1082,1086,1092,1077>>, <<1082,1072,1092,1077>>, <<99,111,102,102,101,101>>>>,
     establishment_types |-> <<<<1082,1072,1074,39,1103,1088,1085,1103>>, <<1082,1072,1092,1077>>>>],
    \* 'to-go': user_keywords ['швидко', 'на винос', 'перекус', 'поспішаю', 'to-go', 'takeaway', 'на швидку руку', 'перехопити']
    \*   establishment_types ['to-go', 'takeaway']
    [establishment_type |-> <<116,111,45,103,111>>,
     user_keywords |-> <<<<1096,1074,1080,1076,1082,1086>>, <<1085,1072,32,1074,1080,1085,1086,1089>>, <<1087,1077,1088,1077,1082,1091,1089>>, <<1087,1086,1089,1087,1110,1096,1072,1102>>, <<116,111,45,103,111>>, <<116,97,107,101,97,119,97,121>>, <<1085,1072,32,1096,1074,1080,1076,1082,1091,32,1088,1091,1082,1091>>, <<1087,1077,1088,1077,1093,1086,1087,1080,1090,1080>>>>,
     establishment_types |-> <<<<116,111,45,103,111>>, <<116,97,107,101,97,119,97,121>>>>],
    \* 'доставка': user_keywords ['доставка', 'додому', 'замовити', 'привезти', 'delivery', 'не хочу йти', 'вдома']
    \*   establishment_types ['доставка', 'delivery']
    [establishment_type |-> <<1076,1086,1089,1090,1072,1074,1082,1072>>,
     user_keywords |-> <<<<1076,1086,1089,1090,1072,1074,1082,1072>>, <<1076,1086,1076,1086,1084,1091>>, <<1079,1072,1084,1086,1074,1080,1090,1080>>, <<1087,1088,1080,1074,1077,1079,1090,1080>>, <<100,101,108,105,118,101,114,121>>, <<1085,1077,32,1093,1086,1095,1091,32,1081,1090,1080>>, <<1074,1076,1086,1084,1072>>>>,
     establishment_types |-> <<<<1076,1086,1089,1090,1072,1074,1082,1072>>, <<100,101,108,105,118,101,114,121>>>>]
  >>

\* _filter_by_establishment_type: type_keywords (src/main.py lines 772-789)
type_keywords ==
  <<
    \* 'ресторан': user_keywords ['ресторан', 'обід', 'вечеря', 'побачення', 'романтик', 'святкув', 'банкет', 'посідіти', 'поїсти']
    \*   establishment_types ['ресторан']
    [establishment_type |-> <<1088,1077,1089,1090,1086,1088,1072,1085>>,
     user_keywords |-> <<<<1088,1077,1089,1090,1086,1088,1072,1085>>, <<1086,1073,1110,1076>>, <<1074,1077,1095,1077,1088,1103>>, <<1087,1086,1073,1072,1095,1077,1085,1085,1103>>, <<1088,1086,1084,1072,1085,1090,1080,1082>>, <<1089,1074,1103,1090,1082,1091,1074>>, <<1073,1072,1085,1082,1077,1090>>, <<1087,1086,1089,1110,1076,1110,1090,1080>>, <<1087,1086,1111,1089,1090,1080>>>>,
     establishment_types |-> <<<<1088,1077,1089,1090,1086,1088,1072,1085>>>>],
    \* "кав'ярня": user_keywords ['кава', 'капучіно', 'латте', 'еспресо', "кав'ярня", 'десерт', 'тірамісу', 'круасан', 'випити кави', 'кофе', 'кафе']
    \*   establishment_types ["кав'ярня", 'кафе']
    [establishment_type |-> <<1082,1072,1074,39,1103,1088,1085,1103>>,
     user_keywords |-> <<<<1082,1072,1074,1072>>, <<1082,1072,1087,1091,1095,1110,1085,1086>>, <<1083,1072,1090,1090,1077>>, <<1077,1089,1087,1088,1077,1089,1086>>, <<1082,1072,1074,39,1103,1088,1085,1103>>, <<1076,1077,1089,1077,1088,1090>>, <<1090,1110,1088,1072,1084,1110,1089,1091>>, <<1082,1088,1091,1072,1089,1072,1085>>, <<1074,1080,1087,1080,1090,1080,32,1082,1072,1074,1080>>, <<1082,1086,1092,1077>>, <<1082,1072,1092,1077>>>>,
     establishment_types |-> <<<<1082,1072,1074,39,1103,1088,1085,1103>>, <<1082,1072,1092,1077>>>>],
    \* 'to-go': user_keywords ['швидко', 'на винос', 'перекус', 'поспішаю', 'to-go', 'takeaway', 'на швидку руку', 'перехопити']
    \*   establishment_types ['to-go', 'takeaway']
    [establishment_type |-> <<116,111,45,103,111>>,
     user_keywords |-> <<<<1096,1074,1080,1076,1082,1086>>, <<1085,1072,32,1074,1080,1085,1086,1089>>, <<1087,1077,1088,1077,1082,1091,1089>>, <<1087,1086,1089,1087,1110,1096,1072,1102>>, <<116,111,45,103,111>>, <<116,97,107,101,97,119,97,121>>, <<1085,1072,32,1096,1074,1080,1076,1082,1091,32,1088,1091,1082,1091>>, <<1087,1077,1088,1077,1093,1086,1087,1080,1090,1080>>>>,
     establishment_types |-> <<<<116,111,45,103,111>>, <<116,97,107,101,97,119,97,121>>>>],
    \* 'доставка': user_keywords ['доставка', 'додому', 'замовити', 'привезти', 'delivery', 'не хочу йти']
    \*   establishment_types ['доставка', 'delivery']
    [establishment_type |-> <<1076,1086,1089,1090,1072,1074,1082,1072>>,
     user_keywords |-> <<<<1076,1086,1089,1090,1072,1074,1082,1072>>, <<1076,1086,1076,1086,1084,1091>>, <<1079,1072,1084,1086,1074,1080,1090,1080>>, <<1087,1088,1080,1074,1077,1079,1090,1080>>, <<100,101,108,105,118,101,114,121>>, <<1085,1077,32,1093,1086,1095,1091,32,1081,1090,1080>>>>,
     establishment_types |-> <<<<1076,1086,1089,1090,1072,1074,1082,1072>>, <<100,101,108,105,118,101,114,121>>>>]
  >>

\* _filter_by_context: context_filters (src/main.py lines 926-951)
context_filters ==
  <<
    \* 'romantic': user_keywords ['романт', 'побачен', 'двох', 'інтимн', 'затишн', 'свічки', 'романс']
    \*   restaurant_keywords ['інтимн', 'романт', 'для пар', 'камерн', 'приват']
    [context |-> <<114,111,109,97,110,116,105,99>>,
     user_keywords |-> <<<<1088,1086,1084,1072,1085,1090>>, <<1087,1086,1073,1072,1095,1077,1085>>, <<1076,1074,1086,1093>>, <<1110,1085,1090,1080,1084,1085>>, <<1079,1072,1090,1080,1096,1085>>, <<1089,1074,1110,1095,1082,1080>>, <<1088,1086,1084,1072,1085,1089>>>>,
     restaurant_keywords |-> <<<<1110,1085,1090,1080,1084,1085>>, <<1088,1086,1084,1072,1085,1090>>, <<1076,1083,1103,32,1087,1072,1088>>, <<1082,1072,1084,1077,1088,1085>>, <<1087,1088,1080,1074,1072,1090>>>>],
    \* 'family': user_keywords ['сім', 'діт', 'родин', 'батьк', 'мам', 'дитин']
    \*   restaurant_keywords ['сімейн', 'діт', 'родин', 'для всієї сім']
    [context |-> <<102,97,109,105,108,121>>,
     user_keywords |-> <<<<1089,1110,1084>>, <<1076,1110,1090>>, <<1088,1086,1076,1080,1085>>, <<1073,1072,1090,1100,1082>>, <<1084,1072,1084>>, <<1076,1080,1090,1080,1085>>>>,
     restaurant_keywords |-> <<<<1089,1110,1084,1077,1081,1085>>, <<1076,1110,1090>>, <<1088,1086,1076,1080,1085>>, <<1076,1083,1103,32,1074,1089,1110,1108,1111,32,1089,1110,1084>>>>],
    \* 'business': user_keywords ['діл', 'зустріч', 'перегов', 'бізнес', 'робоч', 'офіс']
    \*   restaurant_keywords ['діл', 'зустріч', 'бізнес', 'перегов', 'офіц']
    [context |-> <<98,117,115,105,110,101,115,115>>,
     user_keywords |-> <<<<1076,1110,1083>>, <<1079,1091,1089,1090,1088,1110,1095>>, <<1087,1077,1088,1077,1075,1086,1074>>, <<1073,1110,1079,1085,1077,1089>>, <<1088,1086,1073,1086,1095>>, <<1086,1092,1110,1089>>>>,
     restaurant_keywords |-> <<<<1076,1110,1083>>, <<1079,1091,1089,1090,1088,1110,1095>>, <<1073,1110,1079,1085,1077,1089>>, <<1087,1077,1088,1077,1075,1086,1074>>, <<1086,1092,1110,1094>>>>],
    \* 'friends': user_keywords ['друз', 'компан', 'гуртом', 'весел', 'тусовк']
    \*   restaurant_keywords ['компан', 'друз', 'молодіжн', 'весел', 'гучн']
    [context |-> <<102,114,105,101,110,100,115>>,
     user_keywords |-> <<<<1076,1088,1091,1079>>, <<1082,1086,1084,1087,1072,1085>>, <<1075,1091,1088,1090,1086,1084>>, <<1074,1077,1089,1077,1083>>, <<1090,1091,1089,1086,1074,1082>>>>,
     restaurant_keywords |-> <<<<1082,1086,1084,1087,1072,1085>>, <<1076,1088,1091,1079>>, <<1084,1086,1083,1086,1076,1110,1078,1085>>, <<1074,1077,1089,1077,1083>>, <<1075,1091,1095,1085>>>>],
    \* 'celebration': user_keywords ['святкув', 'день народж', 'ювіле', 'свято', 'торжеств']
    \*   restaurant_keywords ['святков', 'простор', 'банкет', 'торжеств', 'груп']
    [context |-> <<99,101,108,101,98,114,97,116,105,111,110>>,
     user_keywords |-> <<<<1089,1074,1103,1090,1082,1091,1074>>, <<1076,1077,1085,1100,32,1085,1072,1088,1086,1076,1078>>, <<1102,1074,1110,1083,1077>>, <<1089,1074,1103,1090,1086>>, <<1090,1086,1088,1078,1077,1089,1090,1074>>>>,
     restaurant_keywords |-> <<<<1089,1074,1103,1090,1082,1086,1074>>, <<1087,1088,1086,1089,1090,1086,1088>>, <<1073,1072,1085,1082,1077,1090>>, <<1090,1086,1088,1078,1077,1089,1090,1074>>, <<1075,1088,1091,1087>>>>],
    \* 'quick': user_keywords ['швидк', 'перекус', 'фаст', 'поспіша', 'на швидку руку']
    \*   restaurant_keywords ['швидк', 'casual', 'фаст', 'перекус']
    [context |-> <<113,117,105,99,107>>,
     user_keywords |-> <<<<1096,1074,1080,1076,1082>>, <<1087,1077,1088,1077,1082,1091,1089>>, <<1092,1072,1089,1090>>, <<1087,1086,1089,1087,1110,1096,1072>>, <<1085,1072,32,1096,1074,1080,1076,1082,1091,32,1088,1091,1082,1091>>>>,
     restaurant_keywords |-> <<<<1096,1074,1080,1076,1082>>, <<99,97,115,117,97,108>>, <<1092,1072,1089,1090>>, <<1087,1077,1088,1077,1082,1091,1089>>>>]
  >>

\* _filter_by_menu: food_keywords (src/main.py lines 997-1010)
menu_food_keywords ==
  <<
    \* 'піца': [' піц', 'pizza', 'піца']
    [dish |-> <<1087,1110,1094,1072>>,
     keywords |-> <<<<32,1087,1110,1094>>, <<112,105,122,122,97>>, <<1087,1110,1094,1072>>>>],
    \* 'паста': [' паст', 'спагеті', 'pasta']
    [dish |-> <<1087,1072,1089,1090,1072>>,
     keywords |-> <<<<32,1087,1072,1089,1090>>, <<1089,1087,1072,1075,1077,1090,1110>>, <<112,97,115,116,97>>>>],
    \* 'бургер': ['бургер', 'burger', 'гамбургер']
    [dish |-> <<1073,1091,1088,1075,1077,1088>>,
     keywords |-> <<<<1073,1091,1088,1075,1077,1088>>, <<98,117,114,103,101,114>>, <<1075,1072,1084,1073,1091,1088,1075,1077,1088>>>>],
    \* 'суші': [' суші', 'sushi', ' рол', 'ролл', 'сашімі']
    [dish |-> <<1089,1091,1096,1110>>,
     keywords |-> <<<<32,1089,1091,1096,1110>>, <<115,117,115,104,105>>, <<32,1088,1086,1083>>, <<1088,1086,1083,1083>>, <<1089,1072,1096,1110,1084,1110>>>>],
    \* 'салат': [' салат', 'salad']
    [dish |-> <<1089,1072,1083,1072,1090>>,
     keywords |-> <<<<32,1089,1072,1083,1072,1090>>, <<115,97,108,97,100>>>>],
    \* 'хумус': ['хумус', 'hummus']
    [dish |-> <<1093,1091,1084,1091,1089>>,
     keywords |-> <<<<1093,1091,1084,1091,1089>>, <<104,117,109,109,117,115>>>>],
    \* 'фалафель': ['фалафель', 'falafel']
    [dish |-> <<1092,1072,1083,1072,1092,1077,1083,1100>>,
     keywords |-> <<<<1092,1072,1083,1072,1092,1077,1083,1100>>, <<102,97,108,97,102,101,108>>>>],
    \* 'шаурма': ['шаурм', 'shawarma']
    [dish |-> <<1096,1072,1091,1088,1084,1072>>,
     keywords |-> <<<<1096,1072,1091,1088,1084>>, <<115,104,97,119,97,114,109,97>>>>],
    \* 'стейк': ['стейк', 'steak', " м'ясо"]
    [dish |-> <<1089,1090,1077,1081,1082>>,
     keywords |-> <<<<1089,1090,1077,1081,1082>>, <<115,116,101,97,107>>, <<32,1084,39,1103,1089,1086>>>>],
    \* 'риба': [' риб', 'fish', 'лосось']
    [dish |-> <<1088,1080,1073,1072>>,
     keywords |-> <<<<32,1088,1080,1073>>, <<102,105,115,104>>, <<1083,1086,1089,1086,1089,1100>>>>],
    \* 'курка': [' курк', 'курчат', 'chicken']
    [dish |-> <<1082,1091,1088,1082,1072>>,
     keywords |-> <<<<32,1082,1091,1088,1082>>, <<1082,1091,1088,1095,1072,1090>>, <<99,104,105,99,107,101,110>>>>],
    \* 'десерт': ['десерт', 'торт', 'тірамісу', 'морозиво']
    [dish |-> <<1076,1077,1089,1077,1088,1090>>,
     keywords |-> <<<<1076,1077,1089,1077,1088,1090>>, <<1090,1086,1088,1090>>, <<1090,1110,1088,1072,1084,1110,1089,1091>>, <<1084,1086,1088,1086,1079,1080,1074,1086>>>>]
  >>

\* _fallback_dual_selection: keywords_map (src/main.py lines 1345-1350)
keywords_map ==
  <<
    \* 'romantic': (['романт', 'побачен', 'інтимн'], ['інтимн', 'романт', 'пар'])
    [category |-> <<114,111,109,97,110,116,105,99>>,
     user_keywords |-> <<<<1088,1086,1084,1072,1085,1090>>, <<1087,1086,1073,1072,1095,1077,1085>>, <<1110,1085,1090,1080,1084,1085>>>>,
     restaurant_keywords |-> <<<<1110,1085,1090,1080,1084,1085>>, <<1088,1086,1084,1072,1085,1090>>, <<1087,1072,1088>>>>],
    \* 'family': (['сім', 'діт', 'родин'], ['сімейн', 'діт', 'родин'])
    [category |-> <<102,97,109,105,108,121>>,
     user_keywords |-> <<<<1089,1110,1084>>, <<1076,1110,1090>>, <<1088,1086,1076,1080,1085>>>>,
     restaurant_keywords |-> <<<<1089,1110,1084,1077,1081,1085>>, <<1076,1110,1090>>, <<1088,1086,1076,1080,1085>>>>],
    \* 'business': (['діл', 'зустріч', 'бізнес'], ['діл', 'бізнес'])
    [category |-> <<98,117,115,105,110,101,115,115>>,
     user_keywords |-> <<<<1076,1110,1083>>, <<1079,1091,1089,1090,1088,1110,1095>>, <<1073,1110,1079,1085,1077,1089>>>>,
     restaurant_keywords |-> <<<<1076,1110,1083>>, <<1073,1110,1079,1085,1077,1089>>>>],
    \* 'friends': (['друз', 'компан', 'весел'], ['компан', 'друз', 'молодіжн'])
    [category |-> <<102,114,105,101,110,100,115>>,
     user_keywords |-> <<<<1076,1088,1091,1079>>, <<1082,1086,1084,1087,1072,1085>>, <<1074,1077,1089,1077,1083>>>>,
     restaurant_keywords |-> <<<<1082,1086,1084,1087,1072,1085>>, <<1076,1088,1091,1079>>, <<1084,1086,1083,1086,1076,1110,1078,1085>>>>]
  >>

(***************************************************************************)
(* Enhanced keyword matcher (src/main.py lines 365-478)                    *)
(***************************************************************************)

\* Python's None, and a value that is not None.
None == [py_none |-> TRUE]

\* The default of the parameter `window` of _has_negation_near_keywords.
window == 5

\* Positions (0-based) of the words that hold a keyword or resemble one.
KeywordPositions(words, kws) ==
    {i \in 0..(Len(words) - 1) :
        \E n \in 1..Len(kws) :
            \/ Contains(Lower(kws[n]), words[i + 1])
            \/ config.FUZZY_AVAILABLE /\ FuzzRatio(Lower(kws[n]), words[i + 1]) > 85}

\* The test the code applies to a word of the window and a negation word.
NegationTest(negation, word) == Contains(negation, word) \/ Contains(word, negation)

\* A negation check that looks only at the words after the keyword: the
\* window starts at pos instead of pos - window.
HasNegationAfterKeywords(text, kws) ==
    LET words == Split(Lower(text))
    IN  \E pos \in KeywordPositions(words, kws) :
            \E i \in pos..(Min(Len(words), pos + window + 1) - 1) :
                /\ i # pos
                /\ \E n \in 1..Len(negation_words) :
                       NegationTest(negation_words[n], words[i + 1])

\* _has_negation_near_keywords(user_text, keywords)
HasNegationNearKeywords(text, kws) ==
    LET words == Split(Lower(text))
    IN  \E pos \in KeywordPositions(words, kws) :
            \E i \in Max(0, pos - window)..(Min(Len(words), pos + window + 1) - 1) :
                /\ i # pos
                /\ \E n \in 1..Len(negation_words) :
                       NegationTest(negation_words[n], words[i + 1])

\* The synonyms of the groups of `keyword` that occur in user_text: the list
\* found_synonyms that _check_synonyms builds (lines 470-477).
RECURSIVE FoundSynonymsIn(_, _, _)
FoundSynonymsIn(text, syns, n) ==
    IF n > Len(syns) THEN <<>>
    ELSE (IF Contains(Lower(syns[n]), text) THEN <<syns[n]>> ELSE <<>>)
         \o FoundSynonymsIn(text, syns, n + 1)

RECURSIVE FoundSynonyms(_, _, _)
FoundSynonyms(text, keyword, g) ==
    IF g > Len(extended_synonyms) THEN <<>>
    ELSE LET syns == extended_synonyms[g].synonyms
         IN  (IF \E n \in 1..Len(syns) : Lower(syns[n]) = Lower(keyword)
              THEN FoundSynonymsIn(text, syns, 1)
              ELSE <<>>)
             \o FoundSynonyms(text, keyword, g + 1)

\* _check_synonyms(user_text, keyword): the loop fills found_synonyms and
\* max_confidence and the function ends without a return statement, so the
\* call evaluates to None.
CheckSynonyms(text, keyword) ==
    LET found_synonyms == FoundSynonyms(text, keyword, 1)
    IN  None

\* [f"{keyword}→{sw}" for sw in synonym_words]
RECURSIVE SynonymEvidence(_, _, _)
SynonymEvidence(keyword, words, n) ==
    IF n > Len(words) THEN <<>>
    ELSE <<keyword \o <<8594>> \o words[n]>> \o SynonymEvidence(keyword, words, n + 1)

\* The concatenation of the lists of a list.
RECURSIVE Flatten(_, _)
Flatten(lists, n) ==
    IF n > Len(lists) THEN <<>> ELSE lists[n] \o Flatten(lists, n + 1)

\* The fuzzy loop over the words of the text for one keyword (lines 411-419):
\* the words that resemble the keyword raise the confidence to their score
\* times 0.8 and leave the evidence "keyword~word", in the order of the text.
FuzzyLoop(keyword, keyword_lower, user_words) ==
    LET fuzzy_score == ListOf([n \in 1..Len(user_words) |->
                               FuzzRatio(keyword_lower, user_words[n])])
        hits == SelectSeq([n \in 1..Len(user_words) |-> n],
                          LAMBDA n : /\ Len(user_words[n]) > 2
                                     /\ Len(keyword_lower) > 2
                                     /\ fuzzy_score[n] >= config.fuzzy_threshold)
    IN  [confidence |-> MaxOf({fuzzy_score[hits[h]] * 80 : h \in 1..Len(hits)}),
         any_match |-> hits # <<>>,
         found |-> [h \in 1..Len(hits) |-> keyword \o <<126>> \o user_words[hits[h]]]]

\* One turn of the loop over the keywords (lines 388-432): what the turn
\* finds for its keyword, [confidence, any_match, found].
KeywordStep(keyword, user_lower) ==
    LET keyword_lower == Lower(keyword)
        nothing == [confidence |-> 0, any_match |-> FALSE, found |-> <<>>]
        direct ==
            IF Contains(keyword_lower, user_lower)
            THEN IF config.regex_boundaries
                 THEN IF BoundarySearch(keyword_lower, user_lower)
                      THEN [confidence |-> 10000, any_match |-> TRUE, found |-> <<keyword>>]
                      ELSE nothing
                 ELSE [confidence |-> 9000, any_match |-> TRUE, found |-> <<keyword>>]
            ELSE IF config.fuzzy_matching /\ config.FUZZY_AVAILABLE
                 THEN FuzzyLoop(keyword, keyword_lower, Split(user_lower))
                 ELSE nothing
        syn == CheckSynonyms(user_lower, keyword)
    IN  \* Unpacking None raises TypeError, which the except clause swallows.
        IF config.extended_synonyms /\ syn # None /\ syn.match
        THEN [confidence |-> Max(direct.confidence, (syn.confidence * 7) \div 10),
              any_match |-> TRUE,
              found |-> direct.found \o SynonymEvidence(keyword, syn.words, 1)]
        ELSE direct

\* The loop over the keywords: any_match is set by any turn, max_confidence
\* is the largest confidence of a turn, found_keywords collects the evidence.
KeywordLoop(kws, user_lower) ==
    LET steps == ListOf([n \in 1..Len(kws) |-> KeywordStep(kws[n], user_lower)])
    IN  [any_match |-> \E n \in 1..Len(steps) : steps[n].any_match,
         max_confidence |-> MaxOf({steps[n].confidence : n \in 1..Len(steps)}),
         found_keywords |-> Flatten([n \in 1..Len(steps) |-> steps[n].found], 1)]

\* _enhanced_keyword_match(user_text, keywords): (found, confidence, words)
EnhancedKeywordMatch(text, kws) ==
    IF ~config.enabled
    THEN LET old_match == AnyIn(kws, Lower(text))
         IN  [any_match |-> old_match,
              max_confidence |-> IF old_match THEN 10000 ELSE 0,
              found_keywords |-> <<>>]
    ELSE IF config.negation_detection /\ HasNegationNearKeywords(text, kws)
    THEN [any_match |-> FALSE, max_confidence |-> 0, found_keywords |-> <<>>]
    ELSE KeywordLoop(kws, Lower(text))

(***************************************************************************)
(* Catalog entries: the dicts of restaurants_data.  The keys are str.      *)
(***************************************************************************)
K_name == <<110,97,109,101>>                                          \* 'name'
K_type == <<116,121,112,101>>                                         \* 'type'
K_typ_zakladu == <<1090,1080,1087,32,1079,1072,1082,1083,1072,1076,1091>>  \* 'тип закладу'
K_vibe == <<118,105,98,101>>                                          \* 'vibe'
K_aim == <<97,105,109>>                                               \* 'aim'
K_cuisine == <<99,117,105,115,105,110,101>>                           \* 'cuisine'
K_menu == <<109,101,110,117>>                                         \* 'menu'
K_photo == <<112,104,111,116,111>>                                     \* 'photo'
K_address == <<97,100,100,114,101,115,115>>                            \* 'address'
K_socials == <<115,111,99,105,97,108,115>>                             \* 'socials'
K_menu_url == <<109,101,110,117,95,117,114,108>>                       \* 'menu_url'

\* [x for x in seq if x in keep], keep a set
RECURSIVE FilterSeq(_, _)
FilterSeq(seq, keep) ==
    IF seq = <<>> THEN <<>>
    ELSE (IF Head(seq) \in keep THEN <<Head(seq)>> ELSE <<>>) \o FilterSeq(Tail(seq), keep)

\* The elements of a list, as a set.
Range(seq) == {seq[i] : i \in 1..Len(seq)}

(***************************************************************************)
(* Type filter (src/main.py lines 679-814)                                 *)
(***************************************************************************)

\* restaurant.get('тип закладу', restaurant.get('type', '')).lower().strip()
EstablishmentType(restaurant) ==
    Strip(Lower(Get(restaurant, K_typ_zakladu, Get(restaurant, K_type, <<>>))))

\* The test of lines 740-744 and 808-809 for one restaurant.
TypeMatch(restaurant, detected_types) ==
    LET establishment_type == EstablishmentType(restaurant)
    IN  \E n \in 1..Len(detected_types) :
            LET detected_type == Strip(Lower(detected_types[n]))
            IN  \/ Contains(detected_type, establishment_type)
                \/ Contains(establishment_type, detected_type)

\* Counterfactual: detection that stops at the first type whose keywords
\* match.
RECURSIVE EnhancedDetectedTypesFirst(_, _)
EnhancedDetectedTypesFirst(request, n) ==
    IF n > Len(enhanced_type_keywords) THEN <<>>
    ELSE IF EnhancedKeywordMatch(request, enhanced_type_keywords[n].user_keywords).any_match
    THEN enhanced_type_keywords[n].establishment_types
    ELSE EnhancedDetectedTypesFirst(request, n + 1)

\* detected_types of the enhanced filter (lines 708-725).
RECURSIVE EnhancedDetectedTypes(_, _)
EnhancedDetectedTypes(request, n) ==
    IF n > Len(enhanced_type_keywords) THEN <<>>
    ELSE (IF EnhancedKeywordMatch(request, enhanced_type_keywords[n].user_keywords).any_match
          THEN enhanced_type_keywords[n].establishment_types
          ELSE <<>>)
         \o EnhancedDetectedTypes(request, n + 1)

\* detected_types of the old filter (lines 792-797).
RECURSIVE OldDetectedTypes(_, _)
OldDetectedTypes(request, n) ==
    IF n > Len(type_keywords) THEN <<>>
    ELSE (IF AnyIn(type_keywords[n].user_keywords, Lower(request))
          THEN type_keywords[n].establishment_types
          ELSE <<>>)
         \o OldDetectedTypes(request, n + 1)

\* _filter_by_establishment_type(user_request, restaurant_list)
FilterByEstablishmentType(request, list) ==
    LET detected_types == OldDetectedTypes(request, 1)
    IN  IF detected_types = <<>> THEN list
        ELSE LET filtered_restaurants ==
                     FilterSeq(list, {r \in Range(list) : TypeMatch(r, detected_types)})
             IN  IF filtered_restaurants # <<>> THEN filtered_restaurants ELSE list

\* An enhanced filter whose fallback hands back its input instead of calling
\* the old filter.
EnhancedFilterReturningInput(request, list) ==
    IF list = <<>> THEN list
    ELSE LET detected_types == EnhancedDetectedTypes(request, 1)
         IN  IF detected_types = <<>> THEN list
             ELSE LET filtered_restaurants ==
                          FilterSeq(list, {r \in Range(list) : TypeMatch(r, detected_types)})
                  IN  IF filtered_restaurants # <<>> THEN filtered_restaurants ELSE list

\* _enhanced_filter_by_establishment_type(user_request, restaurant_list)
EnhancedFilterByEstablishmentType(request, list) ==
    IF list = <<>> THEN list
    ELSE LET detected_types == EnhancedDetectedTypes(request, 1)
         IN  IF detected_types = <<>> THEN list
             ELSE LET filtered_restaurants ==
                          FilterSeq(list, {r \in Range(list) : TypeMatch(r, detected_types)})
                  IN  IF filtered_restaurants = <<>> /\ config.fallback_to_old
                      THEN FilterByEstablishmentType(request, list)
                      ELSE IF filtered_restaurants # <<>> THEN filtered_restaurants
                      ELSE list

(***************************************************************************)
(* Context filter (src/main.py lines 921-991)                              *)
(***************************************************************************)

\* detected_contexts: the indices of the contexts whose user keywords occur.
DetectedContexts(request) ==
    {n \in 1..Len(context_filters) :
        AnyIn(context_filters[n].user_keywords, Lower(request))}

\* f"{vibe} {aim} {cuisine} {name}".lower()
RestaurantText(restaurant) ==
    Lower(Get(restaurant, K_vibe, <<>>) \o <<32>> \o Get(restaurant, K_aim, <<>>)
          \o <<32>> \o Get(restaurant, K_cuisine, <<>>) \o <<32>>
          \o Get(restaurant, K_name, <<>>))

\* restaurant_score: the number of detected contexts the restaurant matches.
ContextScore(request, restaurant) ==
    Cardinality({n \in DetectedContexts(request) :
        AnyIn(context_filters[n].restaurant_keywords, RestaurantText(restaurant))})

\* list.sort(key=score, reverse=True) of a list of records with a field
\* score: descending, and stable (equal scores keep their order).
RECURSIVE SortByScoreDesc(_)
SortByScoreDesc(items) ==
    IF items = <<>> THEN <<>>
    ELSE LET top == CHOOSE s \in {items[i].score : i \in 1..Len(items)} :
                        \A i \in 1..Len(items) : items[i].score <= s
         IN  SelectSeq(items, LAMBDA x : x.score = top)
             \o SortByScoreDesc(SelectSeq(items, LAMBDA x : x.score # top))

\* A context filter that keeps the entries of score 0, behind the others.
FilterByContextKeepingAll(request, list) ==
    IF DetectedContexts(request) = {} THEN list
    ELSE LET scored == [i \in 1..Len(list) |->
                           [score |-> ContextScore(request, list[i]), restaurant |-> list[i]]]
             sorted == SortByScoreDesc(scored)
         IN  [i \in 1..Len(sorted) |-> sorted[i].restaurant]

\* _filter_by_context(user_request, restaurant_list)
FilterByContext(request, list) ==
    IF DetectedContexts(request) = {} THEN list
    ELSE LET scored == [i \in 1..Len(list) |->
                           [score |-> ContextScore(request, list[i]), restaurant |-> list[i]]]
             filtered_restaurants == SelectSeq(scored, LAMBDA x : x.score > 0)
             sorted == SortByScoreDesc(filtered_restaurants)
         IN  IF filtered_restaurants # <<>>
             THEN [i \in 1..Len(sorted) |-> sorted[i].restaurant]
             ELSE list

(***************************************************************************)
(* Menu filter (src/main.py lines 993-1045)                                *)
(***************************************************************************)

\* requested_dishes: the indices of the dishes whose keywords occur.
MenuRequestedDishes(request) ==
    {n \in 1..Len(menu_food_keywords) :
        AnyIn(menu_food_keywords[n].keywords, Lower(request))}

\* has_requested_dish for one restaurant
HasRequestedDish(request, restaurant) ==
    \E n \in MenuRequestedDishes(request) :
        AnyIn(menu_food_keywords[n].keywords, Lower(Get(restaurant, K_menu, <<>>)))

\* A menu filter without the fallback to its input.
FilterByMenuStrict(request, list) ==
    IF MenuRequestedDishes(request) # {}
    THEN FilterSeq(list, {r \in Range(list) : HasRequestedDish(request, r)})
    ELSE list

\* _filter_by_menu(user_request, restaurant_list)
FilterByMenu(request, list) ==
    IF MenuRequestedDishes(request) # {}
    THEN LET filtered_restaurants ==
                 FilterSeq(list, {r \in Range(list) : HasRequestedDish(request, r)})
         IN  IF filtered_restaurants # <<>> THEN filtered_restaurants ELSE list
    ELSE list

(***************************************************************************)
(* Comprehensive analyzer (src/main.py lines 479-648)                      *)
(***************************************************************************)

\* user_has_criterion and restaurant_has_criterion for criterion n
CriterionMatches(request, restaurant, n) ==
    LET c == search_criteria[n]
    IN  /\ AnyIn(c.keywords, Lower(request))
        /\ \E k \in 1..Len(c.columns) :
               AnyIn(c.keywords, Lower(Get(restaurant, c.columns[k], <<>>)))

\* The number of columns of criterion n that hold one of its keywords.
MatchingColumns(restaurant, n) ==
    LET c == search_criteria[n]
    IN  Cardinality({k \in 1..Len(c.columns) :
            AnyIn(c.keywords, Lower(Get(restaurant, c.columns[k], <<>>)))})

\* An increment that grows with the number of matching columns: the weight
\* and 0.2 for each column, in tenths.
ScoreIncrementPerColumn(restaurant, n) ==
    search_criteria[n].weight + 2 * MatchingColumns(restaurant, n)

\* What one matching criterion adds to total_score (line 623), in tenths.
ScoreIncrement(restaurant, n) == search_criteria[n].weight

\* total_score after the criteria n.. (lines 602-624), in tenths.
RECURSIVE TotalScore(_, _, _)
TotalScore(request, restaurant, n) ==
    IF n > Len(search_criteria) THEN 0
    ELSE (IF CriterionMatches(request, restaurant, n)
          THEN ScoreIncrement(restaurant, n) ELSE 0)
         + TotalScore(request, restaurant, n + 1)

\* matched_criteria: the names of the matching criteria, in table order.
MatchedCriteria(request, restaurant) ==
    LET matching == SelectSeq([n \in 1..Len(search_criteria) |-> n],
                              LAMBDA n : CriterionMatches(request, restaurant, n))
    IN  [m \in 1..Len(matching) |-> search_criteria[matching[m]].criterion_name]

\* A band that reaches down to half of the top score.
InTopBandHalf(score, top_score) == 2 * score >= top_score

\* Whether an item of score stands in the top band of top_score (line 640):
\* score >= top_score * 0.7.
InTopBand(score, top_score) == 10 * score >= 7 * top_score

\* _comprehensive_content_analysis(user_request) over restaurants_data:
\* (found, items); the third component, a text for the log, is left out.
ComprehensiveContentAnalysis(request, catalog) ==
    LET all == [i \in 1..Len(catalog) |->
                   [restaurant |-> catalog[i],
                    score |-> TotalScore(request, catalog[i], 1),
                    criteria |-> MatchedCriteria(request, catalog[i])]]
        restaurant_scores == SortByScoreDesc(SelectSeq(all, LAMBDA x : x.score > 0))
    IN  IF restaurant_scores # <<>>
        THEN [found |-> TRUE,
              items |-> SelectSeq(restaurant_scores,
                           LAMBDA x : InTopBand(x.score, restaurant_scores[1].score))]
        ELSE [found |-> FALSE, items |-> <<>>]

(***************************************************************************)
(* Dish gate (src/main.py lines 244-363, 650-677)                          *)
(***************************************************************************)

\* Whether the request names dish n of the table (lines 283-314).
DishRequested(request, n) ==
    LET kws == check_food_keywords[n].keywords
        user_lower == Lower(request)
        user_words == Split(user_lower)
    IN  \/ \E k \in 1..Len(kws) :
               IF config.enabled /\ config.regex_boundaries
               THEN BoundarySearch(Lower(kws[k]), user_lower)
               ELSE Contains(Lower(kws[k]), user_lower)
        \/ /\ config.fuzzy_matching /\ config.FUZZY_AVAILABLE
           /\ \E u \in 1..Len(user_words) : \E k \in 1..Len(kws) :
                  /\ Len(user_words[u]) > 3
                  /\ Len(kws[k]) > 3
                  /\ FuzzRatio(Lower(kws[k]), user_words[u]) >= 85

\* Whether a keyword of the list stands in the menu of the restaurant, by the
\* test of lines 336-347 and 1102-1113.
MenuHasKeyword(restaurant, kws) ==
    LET menu_text == Lower(Get(restaurant, K_menu, <<>>))
    IN  \E k \in 1..Len(kws) :
            IF config.regex_boundaries
            THEN BoundarySearch(Lower(kws[k]), menu_text)
            ELSE Contains(Lower(kws[k]), menu_text)

\* requested_dishes: indices into check_food_keywords, in table order.
RequestedDishes(request) ==
    SelectSeq([n \in 1..Len(check_food_keywords) |-> n],
              LAMBDA n : DishRequested(request, n))

\* The names of the dishes at the indices of a list.
DishNames(idx) == [i \in 1..Len(idx) |-> check_food_keywords[idx[i]].dish]

\* _check_dish_availability(user_request): (available, dishes)
CheckDishAvailability(request, catalog) ==
    LET requested_dishes == RequestedDishes(request)
        found == SelectSeq(requested_dishes,
                     LAMBDA n : \E i \in 1..Len(catalog) :
                         MenuHasKeyword(catalog[i], check_food_keywords[n].keywords))
    IN  IF requested_dishes = <<>> THEN [available |-> FALSE, dishes |-> <<>>]
        ELSE IF found # <<>> THEN [available |-> TRUE, dishes |-> DishNames(found)]
        ELSE [available |-> FALSE, dishes |-> DishNames(requested_dishes)]

\* _get_dish_keywords(dish): food_keywords.get(dish, [dish])
GetDishKeywords(dish) ==
    IF \E n \in 1..Len(dish_food_keywords) : dish_food_keywords[n].dish = dish
    THEN dish_food_keywords[CHOOSE n \in 1..Len(dish_food_keywords) :
                                dish_food_keywords[n].dish = dish].keywords
    ELSE <<dish>>

(***************************************************************************)
(* Configurations and inputs                                               *)
(***************************************************************************)

\* ENHANCED_SEARCH_CONFIG as the source sets it (lines 38-46), with the
\* fuzzywuzzy import succeeding (lines 15-19).
DefaultConfig ==
    [enabled |-> TRUE,
     fuzzy_matching |-> TRUE,
     fuzzy_threshold |-> 80,
     regex_boundaries |-> TRUE,
     negation_detection |-> TRUE,
     extended_synonyms |-> TRUE,
     fallback_to_old |-> TRUE,
     FUZZY_AVAILABLE |-> TRUE]

\* The configurations explored: the default, the build without fuzzywuzzy,
\* and the default with one switch turned off.
Configs ==
    {DefaultConfig,
     [DefaultConfig EXCEPT !.FUZZY_AVAILABLE = FALSE],
     [DefaultConfig EXCEPT !.enabled = FALSE],
     [DefaultConfig EXCEPT !.regex_boundaries = FALSE],
     [DefaultConfig EXCEPT !.negation_detection = FALSE],
     [DefaultConfig EXCEPT !.fallback_to_old = FALSE]}

\* Longest text, in words, built from the vocabulary.
MaxWords == 2

\* Words the matcher texts are built from.
Vocabulary ==
    {<<1085,1077>>,                                      \* 'не'
     <<1093,1086,1095,1091>>,                            \* 'хочу'
     <<1087,1110,1094,1091>>,                            \* 'піцу'
     <<112,105,122,122,97>>,                             \* 'pizza'
     <<1088,1077,1089,1090,1086,1088,1072,1085>>,        \* 'ресторан'
     <<1088,1077,1089,1090,1086,1088,1072,1085,1080>>,   \* 'ресторани'
     <<1050,1072,1074,1072>>,                            \* 'Кава'
     <<1076,1091,1078,1077>>,                            \* 'дуже'
     <<1079>>,                                           \* 'з'
     <<1088,1077,1089,1090,1072,1088,1072,1085>>}        \* 'рестаран'

\* " ".join(ws)
RECURSIVE Join(_)
Join(ws) ==
    IF ws = <<>> THEN <<>>
    ELSE IF Len(ws) = 1 THEN ws[1]
    ELSE ws[1] \o <<32>> \o Join(Tail(ws))

\* The word sequences of at most n words of the vocabulary.
WordSeqs(n) == UNION {[1..k -> Vocabulary] : k \in 0..n}

\* Texts longer than the window of the negation check.
LongTexts ==
    {\* 'не дуже дуже дуже дуже дуже ресторан'
     Join(<<<<1085,1077>>, <<1076,1091,1078,1077>>, <<1076,1091,1078,1077>>,
            <<1076,1091,1078,1077>>, <<1076,1091,1078,1077>>, <<1076,1091,1078,1077>>,
            <<1088,1077,1089,1090,1086,1088,1072,1085>>>>),
     \* 'не дуже дуже дуже дуже ресторан'
     Join(<<<<1085,1077>>, <<1076,1091,1078,1077>>, <<1076,1091,1078,1077>>,
            <<1076,1091,1078,1077>>, <<1076,1091,1078,1077>>,
            <<1088,1077,1089,1090,1086,1088,1072,1085>>>>),
     \* 'не ресторан дуже дуже дуже дуже дуже Кава'
     Join(<<<<1085,1077>>, <<1088,1077,1089,1090,1086,1088,1072,1085>>,
            <<1076,1091,1078,1077>>, <<1076,1091,1078,1077>>, <<1076,1091,1078,1077>>,
            <<1076,1091,1078,1077>>, <<1076,1091,1078,1077>>, <<1050,1072,1074,1072>>>>)}

MatchTexts == {Join(ws) : ws \in WordSeqs(MaxWords)} \cup LongTexts

\* Keyword lists handed to the matcher.
MatchKeywords ==
    {<<>>,
     <<<<1087,1110,1094,1091>>>>,                        \* ['піцу']
     <<<<1087,1110,1094,1072>>>>,                        \* ['піца']
     \* ['ресторан', 'кава']
     <<<<1088,1077,1089,1090,1086,1088,1072,1085>>, <<1082,1072,1074,1072>>>>}

\* Catalog entries the lists are built from.
\* {'name': 'A', 'type': 'ресторан', 'vibe': 'романтична', 'aim': 'для пар',
\*  'cuisine': 'італійська', 'menu': 'стейк, паста'}
EntryA ==
    (K_name :> <<65>>)
    @@ (K_type :> <<1088,1077,1089,1090,1086,1088,1072,1085>>)
    @@ (K_vibe :> <<1088,1086,1084,1072,1085,1090,1080,1095,1085,1072>>)
    @@ (K_aim :> <<1076,1083,1103,32,1087,1072,1088>>)
    @@ (K_cuisine :> <<1110,1090,1072,1083,1110,1081,1089,1100,1082,1072>>)
    @@ (K_menu :> <<1089,1090,1077,1081,1082,44,32,1087,1072,1089,1090,1072>>)

\* {'name': 'B', 'тип закладу': " Кав'ярня ", 'vibe': 'робоча', 'aim': 'ноутбук',
\*  'menu': 'кава, десерт'}
EntryB ==
    (K_name :> <<66>>)
    @@ (K_typ_zakladu :> <<32,1050,1072,1074,39,1103,1088,1085,1103,32>>)
    @@ (K_vibe :> <<1088,1086,1073,1086,1095,1072>>)
    @@ (K_aim :> <<1085,1086,1091,1090,1073,1091,1082>>)
    @@ (K_menu :> <<1082,1072,1074,1072,44,32,1076,1077,1089,1077,1088,1090>>)

\* {'name': 'C', 'type': '', 'vibe': 'сімейний, романтичний', 'aim': 'друзі',
\*  'cuisine': '', 'menu': 'піца, хумус'}
EntryC ==
    (K_name :> <<67>>)
    @@ (K_type :> <<>>)
    @@ (K_vibe :> <<1089,1110,1084,1077,1081,1085,1080,1081,44,32,1088,1086,1084,1072,1085,1090,1080,1095,1085,1080,1081>>)
    @@ (K_aim :> <<1076,1088,1091,1079,1110>>)
    @@ (K_cuisine :> <<>>)
    @@ (K_menu :> <<1087,1110,1094,1072,44,32,1093,1091,1084,1091,1089>>)

\* {'name': 'D', 'type': 'доставка', 'vibe': '', 'aim': '', 'cuisine': 'суші',
\*  'menu': 'суші, роли', 'photo': 'https://drive.google.com/file/d/a1-B_2/view'}
EntryD ==
    (K_name :> <<68>>)
    @@ (K_type :> <<1076,1086,1089,1090,1072,1074,1082,1072>>)
    @@ (K_vibe :> <<>>)
    @@ (K_aim :> <<>>)
    @@ (K_cuisine :> <<1089,1091,1096,1110>>)
    @@ (K_menu :> <<1089,1091,1096,1110,44,32,1088,1086,1083,1080>>)
    @@ (K_photo :> <<104,116,116,112,115,58,47,47,100,114,105,118,101,46,103,111,111,103,
                     108,101,46,99,111,109,47,102,105,108,101,47,100,47,97,49,45,66,95,50,
                     47,118,105,101,119>>)

Entries == {EntryA, EntryB, EntryC, EntryD}

\* Longest list of entries.
MaxList == 2

\* The lists of at most n different entries, in every order.
Lists(n) ==
    UNION {{s \in [1..k -> Entries] : \A i, j \in 1..k : i # j => s[i] # s[j]} : k \in 0..n}

\* Request texts.
Requests ==
    {<<>>,                                                                  \* ''
     <<1076,1091,1078,1077>>,                                               \* 'дуже'
     <<1088,1077,1089,1090,1086,1088,1072,1085>>,                           \* 'ресторан'
     <<1050,1072,1074,1072>>,                                               \* 'Кава'
     <<1050,1072,1074,1072,32,1088,1077,1089,1090,1086,1088,1072,1085>>,    \* 'Кава ресторан'
     <<1076,1086,1089,1090,1072,1074,1082,1072>>,                           \* 'доставка'
     \* 'доставка романтика'
     <<1076,1086,1089,1090,1072,1074,1082,1072,32,1088,1086,1084,1072,1085,1090,1080,1082,1072>>,
     \* 'романтичний ресторан'
     <<1088,1086,1084,1072,1085,1090,1080,1095,1085,1080,1081,32,1088,1077,1089,1090,1086,1088,1072,1085>>,
     \* 'романтичний сімейний'
     <<1088,1086,1084,1072,1085,1090,1080,1095,1085,1080,1081,32,1089,1110,1084,1077,1081,1085,1080,1081>>,
     <<1093,1086,1095,1091,32,1089,1091,1096,1110>>,                        \* 'хочу суші'
     <<1093,1091,1084,1091,1089,32,1088,1077,1089,1090,1086,1088,1072,1085>>, \* 'хумус ресторан'
     <<1093,1091,1084,1091,1089>>,                                          \* 'хумус'
     <<1087,1110,1094,1072>>,                                               \* 'піца'
     <<1085,1077,32,1093,1086,1095,1091,32,1087,1110,1094,1091>>}           \* 'не хочу піцу'

\* Request texts for the filters: the above, and one that matches the
\* keywords of two types with different confidence ('капучино' resembles
\* 'капучіно').
FilterRequests ==
    Requests
    \cup {\* 'ресторан капучино'
          <<1088,1077,1089,1090,1086,1088,1072,1085,32,1082,1072,1087,1091,1095,1080,1085,1086>>}

\* The value of recommendation while get_recommendation has not returned.
NotReturned == [not_returned |-> TRUE]

\* The configurations get_recommendation is explored under.
BotConfigs ==
    {DefaultConfig,
     [DefaultConfig EXCEPT !.enabled = FALSE],
     [DefaultConfig EXCEPT !.regex_boundaries = FALSE]}

\* Texts the oracle replies with.
Replies ==
    {\* 'Варіанти: [1, 2]\nПріоритет: 2 - затишно'
     <<1042,1072,1088,1110,1072,1085,1090,1080,58,32,91,49,44,32,50,93,10,1055,1088,1110,
       1086,1088,1080,1090,1077,1090,58,32,50,32,45,32,1079,1072,1090,1080,1096,1085,1086>>,
     \* 'Варіанти: [1, 1]\nПріоритет: 1 - смачно'
     <<1042,1072,1088,1110,1072,1085,1090,1080,58,32,91,49,44,32,49,93,10,1055,1088,1110,
       1086,1088,1080,1090,1077,1090,58,32,49,32,45,32,1089,1084,1072,1095,1085,1086>>,
     \* 'Варіанти: [2]\nПріоритет: 1 - '
     <<1042,1072,1088,1110,1072,1085,1090,1080,58,32,91,50,93,10,1055,1088,1110,1086,1088,
       1080,1090,1077,1090,58,32,49,32,45,32>>,
     \* 'Варіанти: [3]'
     <<1042,1072,1088,1110,1072,1085,1090,1080,58,32,91,51,93>>,
     \* 'не знаю'
     <<1085,1077,32,1079,1085,1072,1102>>,
     \* ''
     <<>>}

(***************************************************************************)
(* Specification of the matcher: the inputs are drawn in the initial state *)
(* and one call of _enhanced_keyword_match is made.                        *)
(***************************************************************************)
\* No update has been handled: the globals of lines 50-52 are empty dicts
\* and the analytics sheet is not open (line 58).
ChatInit ==
    /\ user_states = <<>>
    /\ user_last_recommendation = <<>>
    /\ user_rating_data = <<>>
    /\ effective_user = 0
    /\ sent = <<>>
    /\ handler_raised = FALSE
    /\ analytics_sheet = "None"
    /\ analytics_rows = <<>>
    /\ updates = 0
    /\ pipeline_log = <<>>

\* No handler runs.
ChatIdle == UNCHANGED <<user_states, user_last_recommendation, user_rating_data,
                        effective_user, sent, handler_raised, analytics_sheet,
                        analytics_rows, updates, pipeline_log>>

\* get_recommendation is not called in the specifications of this section.
BotIdle ==
    /\ UNCHANGED <<openai_client, pc, final_filtered, oracle_calls,
                   oracle_outcome, recommendation, choice_text>>
    /\ ChatIdle

InitMatch ==
    /\ config \in Configs
    /\ user_text \in MatchTexts
    /\ keywords \in MatchKeywords
    /\ match_result = None
    /\ restaurants_data = <<>>
    /\ user_request = <<>>
    /\ restaurant_list = <<>>
    /\ filter_op = "none"
    /\ filter_result = None
    /\ openai_client = "None"
    /\ pc = "idle"
    /\ final_filtered = <<>>
    /\ oracle_calls = 0
    /\ oracle_outcome = "none"
    /\ recommendation = NotReturned
    /\ choice_text = None
    /\ ChatInit

CallMatch ==
    /\ match_result = None
    /\ match_result' = EnhancedKeywordMatch(user_text, keywords)
    /\ UNCHANGED <<config, user_text, keywords, restaurants_data, user_request,
                   restaurant_list, filter_op, filter_result>>
    /\ BotIdle

NextMatch == CallMatch

SpecMatch == InitMatch /\ [][NextMatch]_vars

(***************************************************************************)
(* Specification of the filters: a request and a list are drawn in the     *)
(* initial state; one filter or the analyzer is called on the list, or the *)
(* three filters are called in the order of get_recommendation (lines      *)
(* 1134-1143), each on the result of the one before.                       *)
(***************************************************************************)
InitFilter ==
    /\ config \in Configs
    /\ user_text = <<>>
    /\ keywords = <<>>
    /\ match_result = None
    /\ restaurants_data \in Lists(MaxList)
    /\ user_request \in FilterRequests
    /\ restaurant_list = restaurants_data
    /\ filter_op = "none"
    /\ filter_result = None
    /\ openai_client = "None"
    /\ pc = "idle"
    /\ final_filtered = <<>>
    /\ oracle_calls = 0
    /\ oracle_outcome = "none"
    /\ recommendation = NotReturned
    /\ choice_text = None
    /\ ChatInit

FilterFrame ==
    /\ UNCHANGED <<config, user_text, keywords, match_result, restaurants_data,
                   user_request>>
    /\ BotIdle

CallEnhancedTypeFilter ==
    /\ filter_op = "none"
    /\ filter_op' = "enhanced_type"
    /\ filter_result' = [list |-> EnhancedFilterByEstablishmentType(user_request, restaurant_list)]
    /\ UNCHANGED restaurant_list
    /\ FilterFrame

CallOldTypeFilter ==
    /\ filter_op = "none"
    /\ filter_op' = "old_type"
    /\ filter_result' = [list |-> FilterByEstablishmentType(user_request, restaurant_list)]
    /\ UNCHANGED restaurant_list
    /\ FilterFrame

CallContextFilter ==
    /\ filter_op \in {"none", "enhanced_type", "old_type"}
    /\ restaurant_list' = IF filter_op = "none" THEN restaurant_list ELSE filter_result.list
    /\ filter_op' = IF filter_op = "none" THEN "context" ELSE "type_context"
    /\ filter_result' = [list |-> FilterByContext(user_request, restaurant_list')]
    /\ FilterFrame

CallMenuFilter ==
    /\ filter_op \in {"none", "type_context"}
    /\ restaurant_list' = IF filter_op = "none" THEN restaurant_list ELSE filter_result.list
    /\ filter_op' = IF filter_op = "none" THEN "menu" ELSE "type_context_menu"
    /\ filter_result' = [list |-> FilterByMenu(user_request, restaurant_list')]
    /\ FilterFrame

CallAnalyzer ==
    /\ filter_op = "none"
    /\ filter_op' = "analyzer"
    /\ filter_result' = ComprehensiveContentAnalysis(user_request, restaurants_data)
    /\ UNCHANGED restaurant_list
    /\ FilterFrame

NextFilter ==
    \/ CallEnhancedTypeFilter
    \/ CallOldTypeFilter
    \/ CallContextFilter
    \/ CallMenuFilter
    \/ CallAnalyzer

SpecFilter == InitFilter /\ [][NextFilter]_vars

(***************************************************************************)
(* Reply parser and fallback selector (src/main.py lines 86-99, 1220-1396) *)
(***************************************************************************)

\* str.startswith(p)
StartsWith(t, p) == Len(t) >= Len(p) /\ SubSeq(t, 1, Len(p)) = p

\* str.split(sep) for a separator of one character: the pieces between the
\* separators, the empty ones included.
SplitOn(t, sep) ==
    LET cuts == SelectSeq([i \in 1..Len(t) |-> i], LAMBDA i : t[i] = sep)
        From(n) == IF n = 1 THEN 1 ELSE cuts[n - 1] + 1
        To(n) == IF n = Len(cuts) + 1 THEN Len(t) ELSE cuts[n] - 1
    IN  ListOf([n \in 1..(Len(cuts) + 1) |-> SubSeq(t, From(n), To(n))])

\* The class \d, for the ASCII digits the replies are written with.
IsDigit(c) == c \in 48..57

\* re.findall(r'\d+', t): the maximal runs of digits, in order.
FindAllNumbers(t) ==
    LET starts == SelectSeq([i \in 1..Len(t) |-> i],
                            LAMBDA i : IsDigit(t[i]) /\ (i = 1 \/ ~IsDigit(t[i - 1])))
        EndOf(i) == CHOOSE j \in i..Len(t) :
                        /\ \A k \in i..j : IsDigit(t[k])
                        /\ j = Len(t) \/ ~IsDigit(t[j + 1])
    IN  ListOf([n \in 1..Len(starts) |-> SubSeq(t, starts[n], EndOf(starts[n]))])

\* int(num) of a run of digits.
RECURSIVE ParseInt(_)
ParseInt(num) ==
    IF num = <<>> THEN 0
    ELSE 10 * ParseInt(SubSeq(num, 1, Len(num) - 1)) + (num[Len(num)] - 48)

\* The characters of a file id: [a-zA-Z0-9-_]
IsFileIdChar(c) ==
    c \in 97..122 \/ c \in 65..90 \/ c \in 48..57 \/ c = 45 \/ c = 95

\* _convert_google_drive_url(url): the direct link of a Google Drive link,
\* the id being the run of id characters after the first '/file/d/' that is
\* followed by one; any other text is returned as it is.
ConvertGoogleDriveUrl(url) ==
    LET marker == <<47,102,105,108,101,47,100,47>>           \* '/file/d/'
        hits == {i \in 0..(Len(url) - Len(marker) - 1) :
                    /\ \A j \in 1..Len(marker) : url[i + j] = marker[j]
                    /\ IsFileIdChar(url[i + Len(marker) + 1])}
    IN  IF url = <<>>
           \/ ~Contains(<<100,114,105,118,101,46,103,111,111,103,108,101,46,99,111,109>>, url)
        THEN url
        ELSE IF hits = {} THEN url
        ELSE LET first == (CHOOSE i \in hits : \A h \in hits : i <= h) + Len(marker) + 1
                 last == CHOOSE j \in first..Len(url) :
                             /\ \A k \in first..j : IsFileIdChar(url[k])
                             /\ j = Len(url) \/ ~IsFileIdChar(url[j + 1])
             IN  \* 'https://drive.google.com/uc?export=view&id=' + file_id
                 <<104,116,116,112,115,58,47,47,100,114,105,118,101,46,103,111,111,103,
                   108,101,46,99,111,109,47,117,99,63,101,120,112,111,114,116,61,118,105,
                   101,119,38,105,100,61>> \o SubSeq(url, first, last)

\* The entry of a result, as lines 1284-1299, 1320-1336 and 1378-1393 build
\* it: the fields shown to the user, each with its default.
RestaurantCard(restaurant) ==
    LET photo_url == Get(restaurant, K_photo, <<>>)
    IN  [name |-> Get(restaurant, K_name, <<1056,1077,1089,1090,1086,1088,1072,1085>>),
         address |-> Get(restaurant, K_address,
                         <<1040,1076,1088,1077,1089,1072,32,1085,1077,32,1074,1082,1072,
                           1079,1072,1085,1072>>),
         socials |-> Get(restaurant, K_socials,
                         <<1057,1086,1094,45,1084,1077,1088,1077,1078,1110,32,1085,1077,
                           32,1074,1082,1072,1079,1072,1085,1110>>),
         vibe |-> Get(restaurant, K_vibe,
                      <<1055,1088,1080,1108,1084,1085,1072,32,1072,1090,1084,1086,1089,
                        1092,1077,1088,1072>>),
         aim |-> Get(restaurant, K_aim,
                     <<1044,1083,1103,32,1073,1091,1076,1100,45,1103,1082,1080,1093,32,
                       1087,1086,1076,1110,1081>>),
         cuisine |-> Get(restaurant, K_cuisine,
                         <<1057,1084,1072,1095,1085,1072,32,1082,1091,1093,1085,1103>>),
         menu |-> Get(restaurant, K_menu, <<>>),
         menu_url |-> Get(restaurant, K_menu_url, <<>>),
         photo |-> IF photo_url # <<>> THEN ConvertGoogleDriveUrl(photo_url) ELSE photo_url,
         type |-> Get(restaurant, K_typ_zakladu,
                      Get(restaurant, K_type, <<1047,1072,1082,1083,1072,1076>>))]

\* Counterfactual: the last two of the numbers instead of the first two.
LastTwoNumbers(numbers) == SubSeq(numbers, Max(1, Len(numbers) - 1), Len(numbers))

\* numbers[:2] of line 1242: at most the first two of the numbers.
TakenNumbers(numbers) == SubSeq(numbers, 1, Min(2, Len(numbers)))

\* Counterfactual: the number of the priority line taken as the index,
\* whether or not the entry was selected.
PriorityIndexAsWritten(priority_num, valid_indices) ==
    IF priority_num # 0 THEN priority_num - 1 ELSE 0

\* Counterfactual: the first selected entry is always the priority.
PriorityIndexFirst(priority_num, valid_indices) == 0

\* Lines 1269-1272: the place of priority_num - 1 in valid_indices
\* (list.index, from 0), and 0 when priority_num is None or 0 or is not in
\* the list. priority_num is 0 also for None: the test takes the two alike.
PriorityIndex(priority_num, valid_indices) ==
    IF priority_num # 0 /\ \E i \in 1..Len(valid_indices) :
                              valid_indices[i] = priority_num - 1
    THEN (CHOOSE i \in 1..Len(valid_indices) :
              /\ valid_indices[i] = priority_num - 1
              /\ \A j \in 1..(i - 1) : valid_indices[j] # priority_num - 1) - 1
    ELSE 0

\* _parse_dual_recommendation(openai_response, filtered_restaurants): the
\* result, or None when the reply selects no entry of the list.
ParseDualRecommendation(openai_response, filtered_restaurants) ==
    LET raw == SplitOn(Strip(openai_response), 10)
        lines == ListOf([n \in 1..Len(raw) |-> Strip(raw[n])])
        IsVariants(line) ==
            /\ StartsWith(Lower(line), <<1074,1072,1088,1110,1072,1085,1090>>)   \* 'варіант'
            /\ Contains(<<91>>, line)
        IsPriority(line) ==
            /\ ~IsVariants(line)
            \* 'пріоритет'
            /\ StartsWith(Lower(line), <<1087,1088,1110,1086,1088,1080,1090,1077,1090>>)
            /\ Contains(<<45>>, line)
        \* The last line that passes the test, '' when none does.
        LastLine(Test(_)) ==
            LET hits == SelectSeq(lines, Test)
            IN  IF hits = <<>> THEN <<>> ELSE hits[Len(hits)]
        variants_line == LastLine(IsVariants)
        priority_line == LastLine(IsPriority)
        numbers == FindAllNumbers(variants_line)
        taken == TakenNumbers(numbers)
        indices == ListOf([n \in 1..Len(taken) |-> ParseInt(taken[n]) - 1])
        valid_indices == SelectSeq(indices,
                             LAMBDA idx : 0 <= idx /\ idx < Len(filtered_restaurants))
        priority_match == IF priority_line = <<>> THEN <<>>
                          ELSE FindAllNumbers(SplitOn(priority_line, 45)[1])
        priority_num == IF priority_match = <<>> THEN 0 ELSE ParseInt(priority_match[1])
        dash == CHOOSE i \in 1..Len(priority_line) :
                    priority_line[i] = 45 /\ \A j \in 1..(i - 1) : priority_line[j] # 45
        explanation_part ==
            IF priority_line = <<>> THEN <<>>
            ELSE Strip(SubSeq(priority_line, dash + 1, Len(priority_line)))
        priority_explanation ==
            IF explanation_part # <<>> THEN explanation_part
            \* 'найкращий варіант за всіма критеріями'
            ELSE <<1085,1072,1081,1082,1088,1072,1097,1080,1081,32,1074,1072,1088,1110,
                   1072,1085,1090,32,1079,1072,32,1074,1089,1110,1084,1072,32,1082,1088,
                   1080,1090,1077,1088,1110,1103,1084,1080>>
        priority_index == PriorityIndex(priority_num, valid_indices)
    IN  IF numbers = <<>> \/ valid_indices = <<>> THEN None
        ELSE [restaurants |-> [n \in 1..Len(valid_indices) |->
                                  RestaurantCard(filtered_restaurants[valid_indices[n] + 1])],
              priority_index |-> priority_index,
              priority_explanation |-> priority_explanation]

\* The values drawn for random.uniform(0, 1), in tenths.
Bonus == {0, 5, 9}

\* One draw of random.uniform for each entry of a list of n entries.
Bonuses(n) == [1..n -> Bonus]

\* The score of line 1353-1363 without the random bonus, in tenths: 3 for
\* each category of keywords_map that both the request and the entry match.
FallbackScore(request, restaurant) ==
    LET user_lower == Lower(request)
        restaurant_text == Lower(Get(restaurant, K_vibe, <<>>) \o <<32>>
                                 \o Get(restaurant, K_aim, <<>>))
    IN  30 * Cardinality({n \in 1..Len(keywords_map) :
                             /\ AnyIn(keywords_map[n].user_keywords, user_lower)
                             /\ AnyIn(keywords_map[n].restaurant_keywords, restaurant_text)})

\* Counterfactual: the best entry taken twice.
TopTwice(scored_restaurants) == <<scored_restaurants[1], scored_restaurants[1]>>

\* scored_restaurants[:2] of line 1368: the first two of the sorted list.
TopRestaurants(scored_restaurants) == SubSeq(scored_restaurants, 1, 2)

\* _fallback_dual_selection(user_request, restaurant_list), bonus[i] being
\* the random bonus of entry i.
FallbackDualSelection(request, list, bonus) ==
    IF list = <<>> THEN None
    ELSE IF Len(list) = 1
    THEN [restaurants |-> <<RestaurantCard(list[1])>>,
          priority_index |-> 0,
          \* 'єдиний доступний варіант після фільтрації'
          priority_explanation |->
              <<1108,1076,1080,1085,1080,1081,32,1076,1086,1089,1090,1091,1087,1085,1080,
                1081,32,1074,1072,1088,1110,1072,1085,1090,32,1087,1110,1089,1083,1103,32,
                1092,1110,1083,1100,1090,1088,1072,1094,1110,1111>>]
    ELSE LET scored_restaurants ==
                 SortByScoreDesc([i \in 1..Len(list) |->
                     [score |-> FallbackScore(request, list[i]) + bonus[i],
                      restaurant |-> list[i]]])
             top_restaurants == TopRestaurants(scored_restaurants)
         IN  [restaurants |-> [n \in 1..Len(top_restaurants) |->
                                  RestaurantCard(top_restaurants[n].restaurant)],
              priority_index |-> 0,
              \* 'найвищий рейтинг за алгоритмом відповідності'
              priority_explanation |->
                  <<1085,1072,1081,1074,1080,1097,1080,1081,32,1088,1077,1081,1090,1080,
                    1085,1075,32,1079,1072,32,1072,1083,1075,1086,1088,1080,1090,1084,1086,
                    1084,32,1074,1110,1076,1087,1086,1074,1110,1076,1085,1086,1089,1090,1110>>]

(***************************************************************************)
(* get_recommendation (src/main.py lines 1047-1218)                        *)
(***************************************************************************)

\* ", ".join(names)
RECURSIVE JoinComma(_)
JoinComma(names) ==
    IF names = <<>> THEN <<>>
    ELSE IF Len(names) = 1 THEN names[1]
    ELSE names[1] \o <<44,32>> \o JoinComma(Tail(names))

\* The result of lines 1087-1091 and 1122-1126.
DishNotFound(dishes_info) ==
    [dish_not_found |-> TRUE,
     missing_dishes |-> JoinComma(dishes_info),
     \* f"На жаль, {missing_dishes} ще немає в нашому переліку. Спробуй іншу страву!"
     message |-> <<1053,1072,32,1078,1072,1083,1100,44,32>> \o JoinComma(dishes_info)
                 \o <<32,1097,1077,32,1085,1077,1084,1072,1108,32,1074,32,1085,1072,1096,
                      1086,1084,1091,32,1087,1077,1088,1077,1083,1110,1082,1091,46,32,1057,
                      1087,1088,1086,1073,1091,1081,32,1110,1085,1096,1091,32,1089,1090,
                      1088,1072,1074,1091,33>>]

\* The orders random.shuffle can leave a list in.
Shuffles(list) ==
    {s \in [1..Len(list) -> Range(list)] :
        \E p \in [1..Len(list) -> 1..Len(list)] :
            /\ \A i, j \in 1..Len(list) : i # j => p[i] # p[j]
            /\ \A i \in 1..Len(list) : s[i] = list[p[i]]}

\* Counterfactual: the hard filter looks for whole words whatever the flag
\* regex_boundaries says.
DishFilteredAtBoundaries(shuffled_restaurants, dishes_info) ==
    SelectSeq(shuffled_restaurants,
              LAMBDA restaurant : \E d \in 1..Len(dishes_info) :
                  LET kws == GetDishKeywords(dishes_info[d])
                  IN  \E k \in 1..Len(kws) :
                          BoundarySearch(Lower(kws[k]),
                                         Lower(Get(restaurant, K_menu, <<>>))))

\* dish_filtered_restaurants of lines 1095-1118: the entries whose menu holds
\* a keyword of one of the dishes.
DishFiltered(shuffled_restaurants, dishes_info) ==
    SelectSeq(shuffled_restaurants,
              LAMBDA restaurant : \E d \in 1..Len(dishes_info) :
                  MenuHasKeyword(restaurant, GetDishKeywords(dishes_info[d])))

\* Counterfactual: the type filter alternates from one request to the next.
TypeFilterAlternating == IF updates % 2 = 0 THEN "enhanced" ELSE "old"

\* The test of line 1134: the type filter get_recommendation selects.
TypeFilterSelected == IF config.enabled THEN "enhanced" ELSE "old"

\* Lines 1134-1143: the type filter the configuration selects, then the
\* context filter, then the menu filter.
FinalFiltered(request, shuffled_restaurants) ==
    LET type_filtered ==
            IF TypeFilterSelected = "enhanced"
            THEN EnhancedFilterByEstablishmentType(request, shuffled_restaurants)
            ELSE FilterByEstablishmentType(request, shuffled_restaurants)
        context_filtered == FilterByContext(request, type_filtered)
    IN  FilterByMenu(request, context_filtered)

\* Lines 1068-1129 for one order of the shuffle: either the result returned
\* at once, or the list that goes on to the three filters.
Narrowed(analysis, gate, shuffled) ==
    IF analysis.found
    THEN [returns |-> FALSE,
          list |-> [i \in 1..Len(analysis.items) |-> analysis.items[i].restaurant]]
    ELSE IF gate.dishes = <<>>
    THEN [returns |-> FALSE, list |-> shuffled]
    ELSE IF ~gate.available
    THEN [returns |-> TRUE, result |-> DishNotFound(gate.dishes)]
    ELSE IF DishFiltered(shuffled, gate.dishes) = <<>>
    THEN [returns |-> TRUE, result |-> DishNotFound(gate.dishes)]
    ELSE [returns |-> FALSE, list |-> DishFiltered(shuffled, gate.dishes)]

\* Counterfactual: the dish gate runs before the test for an empty catalog.
SubmissionsGateFirst(request) ==
    LET analysis == ComprehensiveContentAnalysis(request, restaurants_data)
        gate == CheckDishAvailability(request, restaurants_data)
    IN  IF gate.dishes # <<>> /\ ~gate.available
        THEN {[returns |-> TRUE, result |-> DishNotFound(gate.dishes)]}
        ELSE IF restaurants_data = <<>>
        THEN {[returns |-> TRUE, result |-> None]}
        ELSE {LET narrowed == Narrowed(analysis, gate, shuffled_restaurants)
              IN  IF narrowed.returns THEN narrowed
                  ELSE [returns |-> FALSE, list |-> FinalFiltered(request, narrowed.list)] :
              shuffled_restaurants \in Shuffles(restaurants_data)}

\* get_recommendation(request) up to its await (lines 1057-1199), one
\* outcome for each order of the shuffle: the result returned without a call
\* of the oracle (None for an empty catalog, DishNotFound from the dish
\* gate), or the list final_filtered that the prompt submits to the oracle.
Submissions(request) ==
    IF restaurants_data = <<>>
    THEN {[returns |-> TRUE, result |-> None]}
    ELSE LET analysis == ComprehensiveContentAnalysis(request, restaurants_data)
             gate == CheckDishAvailability(request, restaurants_data)
         IN  {LET narrowed == Narrowed(analysis, gate, shuffled_restaurants)
              IN  IF narrowed.returns THEN narrowed
                  ELSE [returns |-> FALSE, list |-> FinalFiltered(request, narrowed.list)] :
              shuffled_restaurants \in Shuffles(restaurants_data)}

\* Counterfactual: a reply that cannot be parsed goes to the fallback
\* selector over the whole catalog.
ReplyResultsOverCatalog(request, filtered, text) ==
    LET recommendations == ParseDualRecommendation(Strip(text), filtered)
    IN  IF recommendations # None THEN {recommendations}
        ELSE {FallbackDualSelection(request, restaurants_data, bonus) :
                 bonus \in Bonuses(Len(restaurants_data))}

\* What lines 1201-1211 return when the oracle answers text within the
\* timeout: the reply parsed against final_filtered, and for a reply that
\* cannot be parsed the choice of the fallback selector over final_filtered.
ReplyResults(request, filtered, text) ==
    LET recommendations == ParseDualRecommendation(Strip(text), filtered)
    IN  IF recommendations # None THEN {recommendations}
        ELSE {FallbackDualSelection(request, filtered, bonus) :
                 bonus \in Bonuses(Len(filtered))}

\* What lines 1213-1218 return when asyncio.wait_for gives up after 20
\* seconds, when the call raises, and when the response has no choice to
\* read: the choice of the fallback selector over the whole catalog.
FaultResults(request) ==
    {FallbackDualSelection(request, restaurants_data, bonus) :
        bonus \in Bonuses(Len(restaurants_data))}

HarnessIdle == UNCHANGED <<user_text, keywords, match_result, restaurant_list,
                           filter_op, filter_result>>

\* get_recommendation up to its await (lines 1049-1199): the client is set
\* up, an empty catalog returns None, the catalog is shuffled and narrowed,
\* and the prompt listing final_filtered is sent to the oracle.
GetRecommendation ==
    /\ pc = "idle"
    /\ openai_client' = "openai"
    /\ \E outcome \in Submissions(user_request) :
           IF outcome.returns
           THEN /\ pc' = "returned"
                /\ recommendation' = outcome.result
                /\ UNCHANGED <<final_filtered, oracle_calls>>
           ELSE /\ pc' = "awaiting_oracle"
                /\ final_filtered' = outcome.list
                /\ oracle_calls' = oracle_calls + 1
                /\ UNCHANGED recommendation
    /\ UNCHANGED <<config, restaurants_data, user_request, oracle_outcome,
                   choice_text>>
    /\ HarnessIdle
    /\ ChatIdle

\* The oracle answers within the timeout (lines 1201-1211).
OracleReplies ==
    /\ pc = "awaiting_oracle"
    /\ \E text \in Replies :
           /\ choice_text' = text
           /\ \E result \in ReplyResults(user_request, final_filtered, text) :
                  recommendation' = result
    /\ pc' = "returned"
    /\ oracle_outcome' = "reply"
    /\ UNCHANGED <<config, restaurants_data, user_request, final_filtered,
                   oracle_calls, openai_client>>
    /\ HarnessIdle
    /\ ChatIdle

\* Counterfactual: after a timeout the oracle is called again.
OracleTimesOutRetrying ==
    /\ pc = "awaiting_oracle"
    /\ oracle_calls < 3
    /\ oracle_calls' = oracle_calls + 1
    /\ UNCHANGED <<config, restaurants_data, user_request, final_filtered, pc,
                   recommendation, oracle_outcome, openai_client, choice_text>>
    /\ HarnessIdle
    /\ ChatIdle

\* asyncio.wait_for gives up after 20 seconds (lines 1213-1215).
OracleTimesOut ==
    /\ pc = "awaiting_oracle"
    /\ \E result \in FaultResults(user_request) : recommendation' = result
    /\ pc' = "returned"
    /\ oracle_outcome' = "timeout"
    /\ UNCHANGED <<config, restaurants_data, user_request, final_filtered,
                   oracle_calls, openai_client, choice_text>>
    /\ HarnessIdle
    /\ ChatIdle

\* The call raises, or the response has no choice to read (lines 1216-1218).
OracleFails ==
    /\ pc = "awaiting_oracle"
    /\ \E result \in FaultResults(user_request) : recommendation' = result
    /\ pc' = "returned"
    /\ oracle_outcome' = "exception"
    /\ UNCHANGED <<config, restaurants_data, user_request, final_filtered,
                   oracle_calls, openai_client, choice_text>>
    /\ HarnessIdle
    /\ ChatIdle

\* The state before a call of get_recommendation: the catalog as
\* init_google_sheets loaded it (empty when the load failed), the client not
\* yet set up (line 49).
Init ==
    /\ config \in BotConfigs
    /\ restaurants_data \in Lists(MaxList)
    /\ user_request \in Requests
    /\ pc = "idle"
    /\ final_filtered = <<>>
    /\ oracle_calls = 0
    /\ oracle_outcome = "none"
    /\ recommendation = NotReturned
    /\ openai_client = "None"
    /\ user_text = <<>>
    /\ keywords = <<>>
    /\ match_result = None
    /\ restaurant_list = <<>>
    /\ filter_op = "none"
    /\ filter_result = None
    /\ choice_text = None
    /\ ChatInit

Next ==
    \/ GetRecommendation
    \/ OracleReplies
    \/ OracleTimesOut
    \/ OracleFails

Spec == Init /\ [][Next]_vars

(***************************************************************************)
(* The conversation: start and handle_message (src/main.py lines           *)
(* 1478-1680) over the globals user_states, user_last_recommendation and   *)
(* user_rating_data. The application is built without concurrent_updates   *)
(* (line 1753), so it dispatches one update at a time: the next update is  *)
(* handled when the handler of the one before has returned. pc is "idle"   *)
(* between updates and "awaiting_oracle" while handle_message is suspended *)
(* in get_recommendation.                                                  *)
(***************************************************************************)

\* update.effective_user.id
Users == {1, 2}

\* How many updates of the users are dispatched in a run.
MaxUpdates == 4

\* How many updates are dispatched in a run of the conversation of one user.
MaxTurns == 5

\* update.message.text
Texts ==
    {<<1076,1091,1078,1077>>,   \* 'дуже'
     <<1073,1091,1088,1075,1077,1088>>,   \* 'бургер'
     <<55>>,   \* '7'
     <<48>>,   \* '0'
     <<49,49>>,   \* '11'
     <<178>>}   \* '²'

\* Counterfactual: one value kept for all the users instead of one for each.
PutAll(d, k, v) == [x \in DOMAIN d \cup {k} |-> v]

\* d[k] = v and del d[k] on a dict.
Put(d, k, v) == [x \in DOMAIN d \cup {k} |-> IF x = k THEN v ELSE d[x]]
Del(d, k) == [x \in DOMAIN d \ {k} |-> d[x]]

\* str.isdigit(): every character is a digit and there is at least one. The
\* superscript digits (178, 179, 185) are digits for isdigit and are not
\* decimal digits for int().
StrIsDigit(t) ==
    /\ t # <<>>
    /\ \A i \in 1..Len(t) : IsDigit(t[i]) \/ t[i] \in {178, 179, 185}

\* Whether int(t) raises ValueError for a text that passed isdigit().
IntRaises(t) == \E i \in 1..Len(t) : ~IsDigit(t[i])

\* log_request (lines 1398-1427): the rows of the sheet after the call.
\* Nothing is written without a sheet; append_row can fail, which is logged
\* and swallowed. The clock columns of the row are left out; rating is 0
\* for None.
LogRequest(user_id, request, restaurant_name, rating, explanation, append_ok) ==
    IF analytics_sheet = "None" \/ ~append_ok THEN analytics_rows
    ELSE Append(analytics_rows,
                [user_id |-> user_id, user_request |-> request,
                 restaurant_name |-> restaurant_name,
                 \* str(rating) if rating else ""
                 rating |-> IF rating = 0 THEN <<>>
                            ELSE IF rating >= 10 THEN <<48 + (rating \div 10), 48 + (rating % 10)>>
                            ELSE <<48 + rating>>,
                 explanation |-> explanation])

\* Counterfactual: log_request without its try, so that a failing append_row
\* raises out of it.
LogRequestUnguarded(append_ok) == analytics_sheet # "None" /\ ~append_ok

\* Whether the call of log_request raises into the handler: the try of
\* lines 1404-1427 catches what append_row raises, and line 1400 returns when
\* there is no sheet.
LogRequestRaises(append_ok) == FALSE

\* Counterfactual: the stage after a recommendation skips the rating.
StageSkippingRating == "waiting_explanation"

\* The stage line 1594 stores when a recommendation is delivered.
StageAfterRecommendation == "waiting_rating"

\* Counterfactual: a rating of 0 is accepted.
RatingAcceptedFromZero(rating) == 0 <= rating /\ rating <= 10

\* The test of line 1537.
RatingAccepted(rating) == 1 <= rating /\ rating <= 10

\* Lines 1568-1672 of handle_message for user_id: what it does with the
\* value get_recommendation returned. The messages stand for the texts of
\* the source:
\*   nothing_found   "Вибачте, не знайшов закладів з потрібними стравами. ..."
\*   dish_not_found  "😔 {message} Спробуй знайти щось інше ..."
\*   recommendation  the card of the one candidate, or the cards of the
\*                   priority and the alternative with the explanation;
\*                   sent as a photo, as text with a link to the photo when
\*                   reply_photo fails, or as text
\*   rate_request    "⭐ Оціни ПРІОРИТЕТНУ рекомендацію від 1 до 10 ..."
\* The message "🔍 Шукаю ..." of line 1564 is deleted at line 1569.
Present(user_id, request, result) ==
    LET Ends(states, last, messages, rows, raised) ==
            /\ user_states' = states
            /\ user_last_recommendation' = last
            /\ sent' = messages
            /\ analytics_rows' = rows
            /\ handler_raised' = raised
        \* list[i] of Python for an index from 0: negative indices count
        \* from the end; IndexError outside -len..len-1.
        InRange(list, i) == -Len(list) <= i /\ i < Len(list)
        At(list, i) == IF i >= 0 THEN list[i + 1] ELSE list[Len(list) + i + 1]
        Http(url) == StartsWith(url, <<104,116,116,112>>)
    IN  IF result = None
        THEN Ends(user_states, user_last_recommendation,
                  <<[kind |-> "nothing_found"]>>, analytics_rows, FALSE)
        ELSE IF "dish_not_found" \in DOMAIN result
        THEN Ends(user_states, user_last_recommendation,
                  <<[kind |-> "dish_not_found", message |-> result.message]>>,
                  analytics_rows, FALSE)
        ELSE LET restaurants == result.restaurants
                 priority_index == result.priority_index
             IN  IF ~InRange(restaurants, priority_index)
                 \* IndexError at line 1589, before anything is stored
                 THEN Ends(user_states, user_last_recommendation, <<>>, analytics_rows, TRUE)
                 ELSE LET main_restaurant == At(restaurants, priority_index)
                          states == Put(user_states, user_id, StageAfterRecommendation)
                          last == Put(user_last_recommendation, user_id, main_restaurant.name)
                      IN  \E append_ok, photo_ok \in BOOLEAN :
                            LET rows == LogRequest(user_id, request, main_restaurant.name,
                                                   0, <<>>, append_ok)
                            IN  IF LogRequestRaises(append_ok)
                                \* raised by line 1590, before lines 1593-1594
                                THEN Ends(user_states, user_last_recommendation, <<>>,
                                          analytics_rows, TRUE)
                                ELSE IF Len(restaurants) # 1 /\ ~InRange(restaurants, 1 - priority_index)
                                \* IndexError at line 1610, after lines 1590-1594
                                THEN Ends(states, last, <<>>, rows, TRUE)
                                ELSE Ends(states, last,
                                          <<[kind |-> "recommendation",
                                             shown |-> IF Len(restaurants) = 1
                                                       THEN <<restaurants[1]>>
                                                       ELSE <<main_restaurant,
                                                              At(restaurants, 1 - priority_index)>>,
                                             explanation |-> IF Len(restaurants) = 1 THEN <<>>
                                                             ELSE result.priority_explanation,
                                             menu_link |-> Http(main_restaurant.menu_url),
                                             photo |-> IF ~Http(main_restaurant.photo) THEN "none"
                                                       ELSE IF photo_ok THEN "photo"
                                                       ELSE "link"],
                                            [kind |-> "rate_request",
                                             restaurant_name |-> main_restaurant.name]>>,
                                          rows, FALSE)

\* The application takes the next update from its queue.
Dispatch(user_id) ==
    /\ pc = "idle"
    /\ updates' = updates + 1
    /\ effective_user' = user_id
    /\ UNCHANGED <<config, restaurants_data, analytics_sheet>>
    /\ HarnessIdle

\* get_recommendation is not called by the handler.
NoRecommendation ==
    /\ recommendation' = NotReturned
    /\ oracle_calls' = 0
    /\ oracle_outcome' = "none"
    /\ choice_text' = None
    /\ final_filtered' = <<>>
    /\ UNCHANGED <<pc, user_request, openai_client, pipeline_log>>

\* start (lines 1478-1493): the stage of the user becomes waiting_request
\* and the greeting is sent.
Start(user_id) ==
    /\ Dispatch(user_id)
    /\ user_states' = Put(user_states, user_id, "waiting_request")
    /\ sent' = <<[kind |-> "greeting"]>>
    /\ handler_raised' = FALSE
    /\ NoRecommendation
    /\ UNCHANGED <<user_last_recommendation, user_rating_data, analytics_rows>>

\* handle_message (lines 1495-1680) for a message with the text user_text
\* of the user user_id, up to its return or, in the stage waiting_request,
\* up to the await of the oracle inside get_recommendation. The messages
\* stand for the texts of the source:
\*   start_first      "Напишіть /start, щоб почати"
\*   thanks           "Дякую за детальну оцінку! ... Ваша оцінка: {rating}/10 ..."
\*   ask_explanation  "Дякую за оцінку {rating}/10! ... Чи можеш пояснити чому така оцінка? ..."
\*   number_1_to_10   "Будь ласка, напишіть число від 1 до 10"
\*   searching        "🔍 Шукаю ідеальний ресторан для вас..."
\*   rate_previous    "Будь ласка, оцініть попередню рекомендацію числом від 1 до 10"
\*   start_again      "Напишіть /start, щоб почати знову"
HandleMessage(user_id, message_text) ==
    LET current_state == user_states[user_id]
        Ends(states, last, rating, messages, rows, raised) ==
            /\ user_states' = states
            /\ user_last_recommendation' = last
            /\ user_rating_data' = rating
            /\ sent' = messages
            /\ analytics_rows' = rows
            /\ handler_raised' = raised
            /\ NoRecommendation
        Replies1(message) ==
            Ends(user_states, user_last_recommendation, user_rating_data,
                 <<message>>, analytics_rows, FALSE)
    IN  /\ Dispatch(user_id)
        /\ IF user_id \notin DOMAIN user_states
           THEN Replies1([kind |-> "start_first"])
           ELSE IF current_state = "waiting_explanation" /\ user_id \in DOMAIN user_rating_data
           THEN LET rating_data == user_rating_data[user_id]
                IN  \E append_ok \in BOOLEAN :
                        IF LogRequestRaises(append_ok)
                        \* raised by line 1511, before the reply and lines 1526-1530
                        THEN Ends(user_states, user_last_recommendation, user_rating_data,
                                  <<>>, analytics_rows, TRUE)
                        ELSE
                        Ends(Put(user_states, user_id, "completed"),
                             Del(user_last_recommendation, user_id),
                             Del(user_rating_data, user_id),
                             <<[kind |-> "thanks", rating |-> rating_data.rating]>>,
                             LogRequest(user_id, rating_data.user_request,
                                        rating_data.restaurant_name, rating_data.rating,
                                        message_text, append_ok),
                             FALSE)
           ELSE IF current_state = "waiting_rating" /\ StrIsDigit(message_text)
           THEN IF IntRaises(message_text)
                \* ValueError at line 1536
                THEN Ends(user_states, user_last_recommendation, user_rating_data,
                          <<>>, analytics_rows, TRUE)
                ELSE LET rating == ParseInt(message_text)
                         restaurant_name ==
                             IF user_id \in DOMAIN user_last_recommendation
                             THEN user_last_recommendation[user_id]
                             \* "Невідомий ресторан"
                             ELSE <<1053,1077,1074,1110,1076,1086,1084,1080,1081,32,1088,
                                    1077,1089,1090,1086,1088,1072,1085>>
                     IN  IF RatingAccepted(rating)
                         THEN Ends(Put(user_states, user_id, "waiting_explanation"),
                                   user_last_recommendation,
                                   Put(user_rating_data, user_id,
                                       [rating |-> rating,
                                        restaurant_name |-> restaurant_name,
                                        \* 'Оцінка'
                                        user_request |-> <<1054,1094,1110,1085,1082,1072>>]),
                                   <<[kind |-> "ask_explanation", rating |-> rating]>>,
                                   analytics_rows, FALSE)
                         ELSE Replies1([kind |-> "number_1_to_10"])
           ELSE IF current_state = "waiting_request"
           THEN /\ user_request' = message_text
                /\ openai_client' = "openai"
                /\ oracle_outcome' = "none"
                /\ choice_text' = None
                /\ UNCHANGED user_rating_data
                /\ \E outcome \in Submissions(message_text) :
                       IF outcome.returns
                       THEN /\ recommendation' = outcome.result
                            /\ Present(user_id, message_text, outcome.result)
                            /\ oracle_calls' = 0
                            /\ final_filtered' = <<>>
                            /\ UNCHANGED <<pc, pipeline_log>>
                       ELSE /\ pc' = "awaiting_oracle"
                            /\ recommendation' = NotReturned
                            /\ final_filtered' = outcome.list
                            /\ oracle_calls' = 1
                            /\ pipeline_log' =
                                   Put(pipeline_log, user_id,
                                       (IF user_id \in DOMAIN pipeline_log
                                        THEN pipeline_log[user_id] ELSE {})
                                       \cup {TypeFilterSelected})
                            /\ sent' = <<[kind |-> "searching"]>>
                            /\ handler_raised' = FALSE
                            /\ UNCHANGED <<user_states, user_last_recommendation,
                                           analytics_rows>>
           ELSE IF current_state = "waiting_rating"
           THEN Replies1([kind |-> "rate_previous"])
           ELSE IF current_state = "waiting_explanation"
           THEN Ends(user_states, user_last_recommendation, user_rating_data,
                     <<>>, analytics_rows, FALSE)
           ELSE Replies1([kind |-> "start_again"])

\* handle_message resumes with the value get_recommendation returns and
\* runs to its end.
Resume(outcome, text, result) ==
    /\ pc' = "idle"
    /\ oracle_outcome' = outcome
    /\ choice_text' = text
    /\ recommendation' = result
    /\ Present(effective_user, user_request, result)
    /\ UNCHANGED <<config, restaurants_data, user_request, final_filtered, oracle_calls,
                   openai_client, user_rating_data, effective_user, analytics_sheet,
                   updates, pipeline_log>>
    /\ HarnessIdle

\* The oracle answers within the timeout (lines 1201-1211).
HandlerGetsReply ==
    /\ pc = "awaiting_oracle"
    /\ \E text \in Replies :
           \E result \in ReplyResults(user_request, final_filtered, text) :
               Resume("reply", text, result)

\* asyncio.wait_for gives up after 20 seconds (lines 1213-1215).
HandlerGetsTimeout ==
    /\ pc = "awaiting_oracle"
    /\ \E result \in FaultResults(user_request) : Resume("timeout", None, result)

\* The call raises, or the response has no choice to read (lines 1216-1218).
HandlerGetsException ==
    /\ pc = "awaiting_oracle"
    /\ \E result \in FaultResults(user_request) : Resume("exception", None, result)

\* The process after main() has connected to the sheets and before the
\* first update: the catalog loaded or empty, the analytics sheet open or
\* not, the globals of lines 49-52 as they are set at import.
InitChat ==
    /\ config \in {DefaultConfig, [DefaultConfig EXCEPT !.enabled = FALSE]}
    /\ restaurants_data \in {<<>>, <<EntryC, EntryD>>}
    /\ analytics_sheet \in {"None", "sheet"}
    /\ user_states = <<>>
    /\ user_last_recommendation = <<>>
    /\ user_rating_data = <<>>
    /\ effective_user = 0
    /\ sent = <<>>
    /\ handler_raised = FALSE
    /\ analytics_rows = <<>>
    /\ updates = 0
    /\ pipeline_log = <<>>
    /\ user_request = <<>>
    /\ pc = "idle"
    /\ final_filtered = <<>>
    /\ oracle_calls = 0
    /\ oracle_outcome = "none"
    /\ recommendation = NotReturned
    /\ choice_text = None
    /\ openai_client = "None"
    /\ user_text = <<>>
    /\ keywords = <<>>
    /\ match_result = None
    /\ restaurant_list = <<>>
    /\ filter_op = "none"
    /\ filter_result = None

NextChat ==
    \/ \E user_id \in Users : updates < MaxUpdates /\ Start(user_id)
    \/ \E user_id \in Users, message_text \in Texts :
           updates < MaxUpdates /\ HandleMessage(user_id, message_text)
    \/ HandlerGetsReply
    \/ HandlerGetsTimeout
    \/ HandlerGetsException

SpecChat == InitChat /\ [][NextChat]_vars

\* The conversation of one user: the updates of the user 1 alone, one more
\* of them than in the runs of two users.
NextStages ==
    \/ updates < MaxTurns /\ Start(1)
    \/ \E message_text \in Texts : updates < MaxTurns /\ HandleMessage(1, message_text)
    \/ HandlerGetsReply
    \/ HandlerGetsTimeout
    \/ HandlerGetsException

SpecStages == InitChat /\ [][NextStages]_vars

(***************************************************************************)
(* Specification of the reply parser and the fallback selector: a reply, a *)
(* candidate list and a request are drawn in the initial state, and the    *)
(* parser, the fallback selector, or the two as lines 1205-1211 chain them *)
(* are called on them.                                                     *)
(***************************************************************************)
\* The longest candidate list handed to the parser and the selector.
MaxCandidates == 3

\* The replies of the oracle the parser is explored on.
ParseReplies ==
    {<<1042,1072,1088,1110,1072,1085,1090,1080,58,32,91,49,44,32,51,93,10,1055,1088,1110,1086,1088,1080,1090,1077,1090,58,32,51,32,45,32,1079,1072,1090,1080,1096,1085,1086>>,   \* 'Варіанти: [1, 3]\nПріоритет: 3 - затишно'
     <<1042,1072,1088,1110,1072,1085,1090,1080,58,32,91,49,44,32,51,93>>,   \* 'Варіанти: [1, 3]'
     <<1042,1072,1088,1110,1072,1085,1090,1080,58,32,91,50,44,32,49,93,10,1055,1088,1110,1086,1088,1080,1090,1077,1090,58,32,50,32,45,32>>,   \* 'Варіанти: [2, 1]\nПріоритет: 2 - '
     <<1042,1072,1088,1110,1072,1085,1090,1080,58,32,91,51,44,32,50,44,32,49,93,10,1055,1088,1110,1086,1088,1080,1090,1077,1090,58,32,49,32,45,32,1089,1084,1072,1095,1085,1086>>,   \* 'Варіанти: [3, 2, 1]\nПріоритет: 1 - смачно'
     <<1042,1040,1056,1030,1040,1053,1058,1048,58,32,91,50,44,32,50,93,10,1055,1088,1110,1086,1088,1080,1090,1077,1090,58,32,50,32,45,32,1087,1086,1088,1091,1095>>,   \* 'ВАРІАНТИ: [2, 2]\nПріоритет: 2 - поруч'
     <<1042,1072,1088,1110,1072,1085,1090,1080,58,32,91,52,44,32,49,93,10,1055,1088,1110,1086,1088,1080,1090,1077,1090,58,32,48,32,45,32,1090,1072,1082>>,   \* 'Варіанти: [4, 1]\nПріоритет: 0 - так'
     <<1055,1088,1110,1086,1088,1080,1090,1077,1090,58,32,50,32,45,32,1090,1080,1093,1086,10,1042,1072,1088,1110,1072,1085,1090,1080,58,32,91,49,50,44,32,50,93,10>>,   \* 'Пріоритет: 2 - тихо\nВаріанти: [12, 2]\n'
     <<1042,1072,1088,1110,1072,1085,1090,1080,58,32,91,48,44,32,53,93,10,1055,1088,1110,1086,1088,1080,1090,1077,1090,58,32,49,32,45,32,1085,1110>>,   \* 'Варіанти: [0, 5]\nПріоритет: 1 - ні'
     <<1042,1072,1088,1110,1072,1085,1090,1080,58,32,91,93>>,   \* 'Варіанти: []'
     <<1042,1072,1088,1110,1072,1085,1090,1080,58,32,49,44,32,50>>,   \* 'Варіанти: 1, 2'
     <<1085,1077,32,1079,1085,1072,1102>>,   \* 'не знаю'
     <<>>}   \* ''

\* The requests the fallback selector is explored on.
ParseRequests ==
    {<<>>,                                                                  \* ''
     \* 'романтичний сімейний'
     <<1088,1086,1084,1072,1085,1090,1080,1095,1085,1080,1081,32,1089,1110,1084,1077,1081,1085,1080,1081>>}

InitParse ==
    /\ config = DefaultConfig
    /\ choice_text \in ParseReplies
    /\ final_filtered \in Lists(MaxCandidates)
    /\ user_request \in ParseRequests
    /\ restaurants_data = <<>>
    /\ pc = "idle"
    /\ recommendation = NotReturned
    /\ oracle_calls = 0
    /\ oracle_outcome = "none"
    /\ openai_client = "None"
    /\ user_text = <<>>
    /\ keywords = <<>>
    /\ match_result = None
    /\ restaurant_list = <<>>
    /\ filter_op = "none"
    /\ filter_result = None
    /\ ChatInit

ParseFrame ==
    /\ UNCHANGED <<config, choice_text, final_filtered, user_request, restaurants_data,
                   oracle_calls, oracle_outcome, openai_client>>
    /\ HarnessIdle
    /\ ChatIdle

\* _parse_dual_recommendation(choice_text, final_filtered), as line 1205
\* calls it; it may be called again on the same reply and list.
CallParser ==
    /\ pc \in {"idle", "parser_returned"}
    /\ pc' = "parser_returned"
    /\ recommendation' = ParseDualRecommendation(Strip(choice_text), final_filtered)
    /\ ParseFrame

\* _fallback_dual_selection(user_request, final_filtered)
CallFallback ==
    /\ pc = "idle"
    /\ pc' = "fallback_returned"
    /\ \E bonus \in Bonuses(Len(final_filtered)) :
           recommendation' = FallbackDualSelection(user_request, final_filtered, bonus)
    /\ ParseFrame

\* Lines 1205-1211: the parser, and the fallback selector when the parser
\* returns None.
CallAssembler ==
    /\ pc = "idle"
    /\ pc' = "assembler_returned"
    /\ \E result \in ReplyResults(user_request, final_filtered, choice_text) :
           recommendation' = result
    /\ ParseFrame

NextParse ==
    \/ CallParser
    \/ CallFallback
    \/ CallAssembler

SpecParse == InitParse /\ [][NextParse]_vars

(***************************************************************************)
(* The dish gate and the hard filter of get_recommendation (src/main.py    *)
(* lines 1079-1129): _check_dish_availability over the catalog, then, when *)
(* it reports a dish some menu has, the filter of the shuffled catalog by  *)
(* the keywords of the dishes it returned.                                 *)
(***************************************************************************)

\* Catalog entries whose menus hold a keyword of a dish as a word ('роли',
\* 'ПІЦА'), only inside a longer word ('піцц' in 'піцца', 'салат' in
\* 'Салати'), or not at all.
DishEntries ==
    {(K_name :> <<80>>)      \* {'name': 'P', 'menu': 'піцца, роли'}
       @@ (K_menu :> <<1087,1110,1094,1094,1072,44,32,1088,1086,1083,1080>>),
     (K_name :> <<81>>)      \* {'name': 'Q', 'menu': 'Салати, ПІЦА'}
       @@ (K_menu :> <<1057,1072,1083,1072,1090,1080,44,32,1055,1030,1062,1040>>),
     (K_name :> <<82>>)      \* {'name': 'R', 'menu': 'борщ'}
       @@ (K_menu :> <<1073,1086,1088,1097>>)}

\* Request texts naming no dish, one dish, and two dishes.
DishRequests ==
    {<<1076,1091,1078,1077>>,                                    \* 'дуже'
     <<1087,1110,1094,1072>>,                                    \* 'піца'
     <<1089,1072,1083,1072,1090>>,                               \* 'салат'
     <<1087,1110,1094,1072,32,1089,1091,1096,1110>>,             \* 'піца суші'
     <<1089,1072,1083,1072,1090,32,1087,1072,1089,1090,1072>>}   \* 'салат паста'

\* A catalog of at most MaxList of the entries, a request and a
\* configuration, before the gate is called.
InitDish ==
    /\ config \in BotConfigs
    /\ restaurants_data
           \in UNION {{s \in [1..k -> DishEntries] : \A i, j \in 1..k : i # j => s[i] # s[j]} :
                      k \in 0..MaxList}
    /\ user_request \in DishRequests
    /\ pc = "idle"
    /\ final_filtered = <<>>
    /\ oracle_calls = 0
    /\ oracle_outcome = "none"
    /\ recommendation = NotReturned
    /\ openai_client = "None"
    /\ user_text = <<>>
    /\ keywords = <<>>
    /\ match_result = None
    /\ restaurant_list = <<>>
    /\ filter_op = "none"
    /\ filter_result = None
    /\ choice_text = None
    /\ ChatInit

\* has_dish, dishes_info = self._check_dish_availability(user_request)
\* (line 1079)
CallDishGate ==
    /\ pc = "idle"
    /\ pc' = "gate_returned"
    /\ filter_op' = "dish_gate"
    /\ filter_result' = CheckDishAvailability(user_request, restaurants_data)
    /\ UNCHANGED <<config, restaurants_data, user_request, final_filtered, oracle_calls,
                   oracle_outcome, recommendation, openai_client, choice_text,
                   user_text, keywords, match_result, restaurant_list>>
    /\ ChatIdle

\* Lines 1092-1118, taken when the gate returned dishes and has_dish: the
\* shuffled catalog filtered by the keywords of the dishes.
CallHardFilter ==
    /\ pc = "gate_returned"
    /\ filter_result.dishes # <<>>
    /\ filter_result.available
    /\ pc' = "hard_filtered"
    /\ \E shuffled_restaurants \in Shuffles(restaurants_data) :
           final_filtered' = DishFiltered(shuffled_restaurants, filter_result.dishes)
    /\ UNCHANGED <<config, restaurants_data, user_request, oracle_calls, oracle_outcome,
                   recommendation, openai_client, choice_text, user_text, keywords,
                   match_result, restaurant_list, filter_op, filter_result>>
    /\ ChatIdle

NextDish ==
    \/ CallDishGate
    \/ CallHardFilter

SpecDish == InitDish /\ [][NextDish]_vars

(***************************************************************************)
(* Properties of the matcher, checked under SpecMatch                      *)
(***************************************************************************)

\* The matcher has returned.
MatchReturned == match_result # None

\* A negation word of the list stands immediately before or after a token
\* equal to one of the keywords: the tokens of the negation word ('не', or
\* the two tokens of 'не хочу') are the tokens next to the keyword token.
NegationNextToKeyword(text, kws) ==
    LET words == Split(Lower(text))
    IN  \E p \in 1..Len(words) : \E n \in 1..Len(kws) : \E g \in 1..Len(negation_words) :
            LET neg == Split(negation_words[g])
            IN  /\ words[p] = Lower(kws[n])
                /\ \/ p > Len(neg) /\ SubSeq(words, p - Len(neg), p - 1) = neg
                   \/ p + Len(neg) <= Len(words) /\ SubSeq(words, p + 1, p + Len(neg)) = neg

\* C3: with the enhanced matcher and negation detection enabled, a text in
\* which a negation word stands immediately next to a token equal to one of
\* the keywords is not matched and gets confidence 0, whatever else matches.
C3_NegationSuppression ==
    (/\ MatchReturned
     /\ config.enabled
     /\ config.negation_detection
     /\ NegationNextToKeyword(user_text, keywords))
    => (~match_result.any_match /\ match_result.max_confidence = 0)

\* The matcher has suppressed a text in which a negation word stands next to
\* one keyword while another keyword of the list stands as a whole word
\* elsewhere, farther than the window from the negation word.
C3_Witness ==
    /\ MatchReturned
    /\ config.enabled
    /\ config.negation_detection
    /\ NegationNextToKeyword(user_text, keywords)
    /\ Len(Split(user_text)) > window + 2
    /\ \E n \in 1..Len(keywords) :
           /\ BoundarySearch(Lower(keywords[n]), Lower(user_text))
           /\ ~NegationNextToKeyword(user_text, <<keywords[n]>>)
    /\ ~match_result.any_match

\* A token is a word or resembles it: fuzzy ratio of at least the threshold.
ResemblesToken(word, token) ==
    word = token \/ FuzzRatio(word, token) >= config.fuzzy_threshold

\* The positions of the tokens that are, or resemble, a keyword.
KeywordTokens(words, kws) ==
    {p \in 1..Len(words) : \E n \in 1..Len(kws) : ResemblesToken(Lower(kws[n]), words[p])}

\* The positions of the tokens that are, or resemble, a negation word of the
\* list, or stand in an occurrence of a negation word of several tokens.
NegationTokens(words) ==
    {i \in 1..Len(words) : \E g \in 1..Len(negation_words) :
        LET neg == Split(negation_words[g])
        IN  \/ ResemblesToken(negation_words[g], words[i])
            \/ \E s \in 1..Len(words) :
                   /\ s <= i
                   /\ i < s + Len(neg)
                   /\ s + Len(neg) - 1 <= Len(words)
                   /\ SubSeq(words, s, s + Len(neg) - 1) = neg}

\* A negation token stands within the window of a keyword token.
NegationTokenInWindow(text, kws) ==
    LET words == Split(Lower(text))
    IN  \E p \in KeywordTokens(words, kws) : \E i \in NegationTokens(words) :
            i # p /\ i - p <= window /\ p - i <= window

\* Some keyword occurs in the text as a whole word.
WholeWordKeyword(text, kws) ==
    \E n \in 1..Len(kws) : BoundarySearch(Lower(kws[n]), Lower(text))

\* C4: with the enhanced matcher and boundary checking enabled, a text in
\* which a keyword occurs as a whole word and no token within 5 positions of
\* a keyword token is or resembles a negation word is matched with
\* confidence 1.0.
C4_WholeWordMatch ==
    (/\ MatchReturned
     /\ config.enabled
     /\ config.regex_boundaries
     /\ WholeWordKeyword(user_text, keywords)
     /\ ~NegationTokenInWindow(user_text, keywords))
    => (match_result.any_match /\ match_result.max_confidence = 10000)

\* A synonym of a group of the keyword that occurs in the text.
SynonymsInText(text, keyword) ==
    {syn \in UNION {Range(extended_synonyms[g].synonyms) : g \in
                       {g \in 1..Len(extended_synonyms) :
                           \E n \in 1..Len(extended_synonyms[g].synonyms) :
                               Lower(extended_synonyms[g].synonyms[n]) = Lower(keyword)}} :
        Contains(Lower(syn), Lower(text))}

\* The keyword matches the text exactly (as a substring) or fuzzily.
MatchesDirectly(text, keyword) ==
    \/ Contains(Lower(keyword), Lower(text))
    \/ LET words == Split(Lower(text))
       IN  \E u \in 1..Len(words) :
               /\ Len(words[u]) > 2
               /\ Len(keyword) > 2
               /\ FuzzRatio(Lower(keyword), words[u]) >= config.fuzzy_threshold

\* C5: with the enhanced matcher and synonym expansion enabled and no
\* negation suppressing the text, a keyword that matches neither exactly nor
\* fuzzily while a synonym of its group occurs in the text makes the matcher
\* return matched = true, a confidence of at least 0.7 * 0.8 = 0.56, and the
\* pair keyword-synonym in the evidence.
C5_SynonymExpansion ==
    (/\ MatchReturned
     /\ config.enabled
     /\ config.extended_synonyms
     /\ ~(config.negation_detection /\ HasNegationNearKeywords(user_text, keywords)))
    => \A n \in 1..Len(keywords) :
           (~MatchesDirectly(user_text, keywords[n]) /\ SynonymsInText(user_text, keywords[n]) # {})
           => /\ match_result.any_match
              /\ match_result.max_confidence >= 5600
              /\ \E syn \in SynonymsInText(user_text, keywords[n]) :
                     keywords[n] \o <<8594>> \o syn \in Range(match_result.found_keywords)

(***************************************************************************)
(* Properties of the filters and the analyzer, checked under SpecFilter    *)
(***************************************************************************)

\* The list the last call returned.
Returned == filter_result.list

TypeFilterCalled == filter_op \in {"enhanced_type", "old_type"}

ContextFilterCalled == filter_op \in {"context", "type_context"}

MenuFilterCalled == filter_op \in {"menu", "type_context_menu"}

AnalyzerCalled == filter_op = "analyzer"

\* The types the variant called detects in the request.
DetectedTypes ==
    IF filter_op = "enhanced_type" THEN EnhancedDetectedTypes(user_request, 1)
    ELSE OldDetectedTypes(user_request, 1)

\* A type is detected and no entry of the list matches a detected type.
NoEntryMatches ==
    /\ DetectedTypes # <<>>
    /\ \A i \in 1..Len(restaurant_list) : ~TypeMatch(restaurant_list[i], DetectedTypes)

\* The entries of the list that match a type the old variant detects.
OldMatching ==
    {r \in Range(restaurant_list) : TypeMatch(r, OldDetectedTypes(user_request, 1))}

\* C1 as stated: when a type is detected and no entry matches it, the type
\* filter, enhanced or old, returns exactly its input.
C1_FallbackLaw ==
    (TypeFilterCalled /\ NoEntryMatches) => Returned = restaurant_list

\* C1 as the code has it: when a type is detected and no entry matches it,
\* the old variant returns exactly its input; the enhanced variant returns
\* what the old variant returns for the same request and list, which is the
\* entries matching a type the old variant detects by substring, in order,
\* or the whole input if there are none or fallback_to_old is off.  The
\* result is never empty for a non-empty input.
C1_FallbackToOldFilter ==
    (TypeFilterCalled /\ NoEntryMatches)
    => /\ filter_op = "old_type" => Returned = restaurant_list
       /\ filter_op = "enhanced_type" =>
              Returned = IF config.fallback_to_old /\ OldMatching # {}
                         THEN FilterSeq(restaurant_list, OldMatching)
                         ELSE restaurant_list
       /\ restaurant_list # <<>> => Returned # <<>>

\* The enhanced variant has found no entry of its detected type and has
\* returned a proper part of its input.
C1_Witness ==
    /\ filter_op = "enhanced_type"
    /\ NoEntryMatches
    /\ Returned # <<>>
    /\ Len(Returned) < Len(restaurant_list)

\* The entry has a non-empty type label consistent with a detected type.
ConsistentType(restaurant) ==
    LET establishment_type == EstablishmentType(restaurant)
    IN  /\ establishment_type # <<>>
        /\ \E n \in 1..Len(DetectedTypes) :
               LET detected_type == Strip(Lower(DetectedTypes[n]))
               IN  \/ Contains(detected_type, establishment_type)
                   \/ Contains(establishment_type, detected_type)

\* C2: when a type is detected and at least one entry has a type consistent
\* with it, the output of the type filter is a part of the input and every
\* entry in it has a non-empty type consistent with the detected type.
C2_TypeConsistency ==
    (/\ TypeFilterCalled
     /\ DetectedTypes # <<>>
     /\ \E i \in 1..Len(restaurant_list) : ConsistentType(restaurant_list[i]))
    => /\ Range(Returned) \subseteq Range(restaurant_list)
       /\ \A i \in 1..Len(Returned) : ConsistentType(Returned[i])

\* The context score of an entry for the request.
Score(restaurant) == ContextScore(user_request, restaurant)

\* The entries of a list stand in descending order of context score.
DescendingScore(list) ==
    \A i, j \in 1..Len(list) : i < j => Score(list[i]) >= Score(list[j])

\* The place of an entry in the list handed to the filter.
Place(restaurant) == CHOOSE k \in 1..Len(restaurant_list) : restaurant_list[k] = restaurant

\* C6 as stated: when a context is detected, the output of the context
\* filter is a permutation of its input, in descending order of score.
C6_KeepsEverything ==
    (ContextFilterCalled /\ DetectedContexts(user_request) # {})
    => /\ Len(Returned) = Len(restaurant_list)
       /\ Range(Returned) = Range(restaurant_list)
       /\ DescendingScore(Returned)

\* C6 as the code has it: when a context is detected and some entry scores
\* above 0, the output is exactly the entries that score above 0, in
\* descending order of score, entries of equal score in their input order;
\* when no entry scores, the output is the input.
C6_KeepsScoringEntries ==
    (ContextFilterCalled /\ DetectedContexts(user_request) # {})
    => LET scoring == {r \in Range(restaurant_list) : Score(r) > 0}
       IN  IF scoring = {} THEN Returned = restaurant_list
           ELSE /\ Range(Returned) = scoring
                /\ Len(Returned) = Cardinality(scoring)
                /\ DescendingScore(Returned)
                /\ \A i, j \in 1..Len(Returned) :
                       (i < j /\ Score(Returned[i]) = Score(Returned[j]))
                       => Place(Returned[i]) < Place(Returned[j])

\* The context filter was handed an entry that scores and one that does not
\* and has returned fewer entries than it got.
C6_Witness ==
    /\ ContextFilterCalled
    /\ DetectedContexts(user_request) # {}
    /\ \E r \in Range(restaurant_list) : Score(r) > 0
    /\ \E r \in Range(restaurant_list) : Score(r) = 0
    /\ Len(Returned) < Len(restaurant_list)

\* C7: handed a non-empty list, each of the type filter, the context filter
\* and the menu filter returns a non-empty list of entries of its input; so
\* the list left after type, context and menu filtering of a non-empty
\* catalog is non-empty and holds entries of the catalog only.
C7_NoDeadEnds ==
    /\ ((TypeFilterCalled \/ ContextFilterCalled \/ MenuFilterCalled) /\ restaurant_list # <<>>)
       => (Returned # <<>> /\ Range(Returned) \subseteq Range(restaurant_list))
    /\ (filter_op = "type_context_menu" /\ restaurants_data # <<>>)
       => (Returned # <<>> /\ Range(Returned) \subseteq Range(restaurants_data))

\* The three filters have run in order on a non-empty catalog, the request
\* names a dish, and no entry left by the context filter has it on its menu.
C7_Witness ==
    /\ filter_op = "type_context_menu"
    /\ restaurants_data # <<>>
    /\ MenuRequestedDishes(user_request) # {}
    /\ \A i \in 1..Len(restaurant_list) : ~HasRequestedDish(user_request, restaurant_list[i])
    /\ Returned # <<>>

\* The score the analyzer gives an entry of the catalog.
EntryScore(restaurant) == TotalScore(user_request, restaurant, 1)

\* The highest score of an entry of the catalog, 0 for an empty catalog.
TopScore == MaxOf({EntryScore(restaurants_data[i]) : i \in 1..Len(restaurants_data)})

\* The entries whose score is above 0 and at least 70% of the highest.
TopBand ==
    {r \in Range(restaurants_data) : EntryScore(r) > 0 /\ 10 * EntryScore(r) >= 7 * TopScore}

\* C8: the analyzer returns found = true exactly when the highest score is
\* above 0; it then returns exactly the entries scoring at least 70% of the
\* highest score, each with its score, in descending order of score; and it
\* returns found = false with an empty list when no entry scores.
C8_AnalyzerTopBand ==
    AnalyzerCalled
    => LET items == filter_result.items
       IN  /\ filter_result.found = (TopScore > 0)
           /\ TopScore = 0 => items = <<>>
           /\ TopScore > 0 =>
                  /\ {items[i].restaurant : i \in 1..Len(items)} = TopBand
                  /\ Len(items) = Cardinality(TopBand)
                  /\ \A i \in 1..Len(items) : items[i].score = EntryScore(items[i].restaurant)
                  /\ \A i, j \in 1..Len(items) : i < j => items[i].score >= items[j].score

\* The analyzer has found entries and has left out one that scores above 0
\* but below 70% of the highest score.
C8_Witness ==
    /\ AnalyzerCalled
    /\ filter_result.found
    /\ \E r \in Range(restaurants_data) :
           /\ EntryScore(r) > 0
           /\ \A i \in 1..Len(filter_result.items) : filter_result.items[i].restaurant # r

\* The sum over the criteria n.. that match the request and the entry of the
\* weight and per_column tenths for each matching column.
RECURSIVE SumOfIncrements(_, _, _)
SumOfIncrements(restaurant, per_column, n) ==
    IF n > Len(search_criteria) THEN 0
    ELSE (IF CriterionMatches(user_request, restaurant, n)
          THEN search_criteria[n].weight + per_column * MatchingColumns(restaurant, n)
          ELSE 0)
         + SumOfIncrements(restaurant, per_column, n + 1)

\* C9 as stated: the score of an entry is the sum, over the matching
\* criteria, of weight + 0.2 * k, k the number of matching columns.
C9_IncrementPerColumn ==
    AnalyzerCalled
    => \A i \in 1..Len(filter_result.items) :
           filter_result.items[i].score = SumOfIncrements(filter_result.items[i].restaurant, 2, 1)

\* C9 as the code has it: the score of an entry is the sum of the weights
\* of the matching criteria, whatever the number of matching columns, and
\* the name of each matching criterion is recorded once.
C9_IncrementIsWeight ==
    AnalyzerCalled
    => \A i \in 1..Len(filter_result.items) :
           LET item == filter_result.items[i]
               matching == {n \in 1..Len(search_criteria) :
                               CriterionMatches(user_request, item.restaurant, n)}
           IN  /\ item.score = SumOfIncrements(item.restaurant, 0, 1)
               /\ Len(item.criteria) = Cardinality(matching)
               /\ Range(item.criteria) = {search_criteria[n].criterion_name : n \in matching}

\* The analyzer has scored an entry that matches a criterion in two columns.
C9_Witness ==
    /\ AnalyzerCalled
    /\ \E i \in 1..Len(filter_result.items) : \E n \in 1..Len(search_criteria) :
           /\ CriterionMatches(user_request, filter_result.items[i].restaurant, n)
           /\ MatchingColumns(filter_result.items[i].restaurant, n) >= 2


(***************************************************************************)
(* Claims about get_recommendation                                         *)
(***************************************************************************)

\* What the dish gate answers for the request over the catalog.
DishGate == CheckDishAvailability(user_request, restaurants_data)

\* The request names a dish and the menu of no entry of the catalog has it.
DishMissing ==
    /\ restaurants_data # <<>>
    /\ DishGate.dishes # <<>>
    /\ ~DishGate.available

\* C10: whenever the dish gate detects a dish in the request and no entry of
\* the (non-empty) catalog has it on the menu, get_recommendation returns the
\* DishNotFound result naming the detected dishes, and it never calls the
\* oracle on the way, whatever else the request mentions.
C10_DishNotFoundShortCircuit ==
    (pc # "idle" /\ DishMissing)
        => /\ pc = "returned"
           /\ oracle_calls = 0
           /\ recommendation = DishNotFound(DishGate.dishes)

\* The request names a dish and the menu of some entry of the catalog has it.
DishOnSomeMenu ==
    /\ restaurants_data # <<>>
    /\ DishGate.dishes # <<>>
    /\ DishGate.available

\* The menu of the entry holds a keyword of one of the dishes the gate found.
ServesRequestedDish(restaurant) ==
    \E d \in 1..Len(DishGate.dishes) :
        MenuHasKeyword(restaurant, GetDishKeywords(DishGate.dishes[d]))

\* get_recommendation returned a result with restaurants in it.
ReturnedRestaurants ==
    /\ pc = "returned"
    /\ recommendation # None
    /\ "restaurants" \in DOMAIN recommendation

\* The entry of the catalog a card of a result was built from serves a
\* requested dish.
CardServesRequestedDish(card) ==
    \E i \in 1..Len(restaurants_data) :
        /\ RestaurantCard(restaurants_data[i]) = card
        /\ ServesRequestedDish(restaurants_data[i])

\* C11: when the dish gate detects dishes in the request and the menu of at
\* least one entry of the catalog has one of them, every entry of the list
\* submitted to the oracle, and every candidate of the returned
\* recommendation, has a menu holding a keyword of a requested dish.
C11_DishHardFilter ==
    DishOnSomeMenu
        => /\ pc = "awaiting_oracle"
                => \A i \in 1..Len(final_filtered) : ServesRequestedDish(final_filtered[i])
           /\ ReturnedRestaurants
                => \A n \in 1..Len(recommendation.restaurants) :
                       CardServesRequestedDish(recommendation.restaurants[n])

(***************************************************************************)
(* Claims about the reply parser and the fallback selector                 *)
(***************************************************************************)

\* The lines of the reply, each stripped.
ReplyLines ==
    LET raw == SplitOn(Strip(choice_text), 10)
    IN  ListOf([n \in 1..Len(raw) |-> Strip(raw[n])])

\* The lines of the reply that select variants: 'варіант...' with a '['.
VariantsLines ==
    SelectSeq(ReplyLines,
              LAMBDA line : /\ StartsWith(Lower(line), <<1074,1072,1088,1110,1072,1085,1090>>)
                            /\ Contains(<<91>>, line))

\* The integers written on the selected-variants line (the last such line).
WrittenNumbers ==
    IF VariantsLines = <<>> THEN <<>>
    ELSE LET all == FindAllNumbers(VariantsLines[Len(VariantsLines)])
         IN  ListOf([n \in 1..Len(all) |-> ParseInt(all[n])])

\* The first one or two of them that are 1-based indices into the candidate
\* list, in the order written.
RemainingIndices ==
    SelectSeq(SubSeq(WrittenNumbers, 1, Min(2, Len(WrittenNumbers))),
              LAMBDA k : 1 <= k /\ k <= Len(final_filtered))

ParserReturned == pc = "parser_returned"

\* C13: for a reply with a selected-variants line holding at least one
\* integer, the parser returns as candidates exactly the entries at the first
\* one or two integers of the line that lie in 1..len(candidates), in the
\* order written (nothing is returned when none does), and parsing the same
\* reply against the same list again gives the same result.
C13_ParserSelection ==
    /\ [](ParserReturned /\ WrittenNumbers # <<>>
            => IF RemainingIndices = <<>> THEN recommendation = None
               ELSE /\ recommendation # None
                    /\ recommendation.restaurants =
                           [n \in 1..Len(RemainingIndices) |->
                               RestaurantCard(final_filtered[RemainingIndices[n]])])
    /\ [][ParserReturned /\ ParserReturned' => recommendation' = recommendation]_vars

\* The parser returned the first and the third of three candidates.
C13_Witness ==
    /\ ParserReturned
    /\ Len(final_filtered) = 3
    /\ WrittenNumbers = <<1, 3>>
    /\ recommendation # None
    /\ recommendation.restaurants = <<RestaurantCard(final_filtered[1]),
                                      RestaurantCard(final_filtered[3])>>

\* The lines of the reply that name a priority: 'пріоритет...' with a '-',
\* and not a selected-variants line.
PriorityLines ==
    SelectSeq(ReplyLines,
              LAMBDA line : /\ ~(/\ StartsWith(Lower(line), <<1074,1072,1088,1110,1072,1085,1090>>)
                                 /\ Contains(<<91>>, line))
                            /\ StartsWith(Lower(line),
                                          <<1087,1088,1110,1086,1088,1080,1090,1077,1090>>)
                            /\ Contains(<<45>>, line))

\* The number the priority line (the last such line) names before its dash,
\* 0 when there is no priority line or no number on it.
PriorityNumber ==
    IF PriorityLines = <<>> THEN 0
    ELSE LET named == FindAllNumbers(SplitOn(PriorityLines[Len(PriorityLines)], 45)[1])
         IN  IF named = <<>> THEN 0 ELSE ParseInt(named[1])

\* The priority line names one of the selected indices.
PriorityAmongSelected ==
    \E n \in 1..Len(RemainingIndices) : RemainingIndices[n] = PriorityNumber

\* C14: when the priority line names a 1-based index that is among the valid
\* selected indices, priority_index is the position of that entry inside the
\* returned candidates; in every other case (no priority line, no number,
\* number 0, number not selected) priority_index is 0.
C14_ParserPriority ==
    (ParserReturned /\ recommendation # None)
        => IF PriorityAmongSelected
           THEN /\ recommendation.priority_index \in 0..(Len(RemainingIndices) - 1)
                /\ RemainingIndices[recommendation.priority_index + 1] = PriorityNumber
                /\ recommendation.restaurants[recommendation.priority_index + 1]
                       = RestaurantCard(final_filtered[PriorityNumber])
           ELSE recommendation.priority_index = 0

\* The priority line names the second of two selected entries.
C14_Witness ==
    /\ ParserReturned
    /\ recommendation # None
    /\ Len(RemainingIndices) = 2
    /\ RemainingIndices[2] = PriorityNumber
    /\ RemainingIndices[1] # PriorityNumber
    /\ recommendation.priority_index = 1

\* What the fallback selector can return for the request and the list.
FallbackChoices(list) ==
    {FallbackDualSelection(user_request, list, bonus) : bonus \in Bonuses(Len(list))}

\* C15: for every reply and every candidate list, the empty one included,
\* the parser returns; it returns None exactly when no valid index remains,
\* and lines 1205-1211 then return what the fallback selector returns for
\* the same candidate list.
C15_ParserTotality ==
    /\ ParserReturned
         => /\ recommendation = None <=> RemainingIndices = <<>>
            /\ recommendation # None
                 => /\ DOMAIN recommendation
                          = {"restaurants", "priority_index", "priority_explanation"}
                    /\ Len(recommendation.restaurants) = Len(RemainingIndices)
    /\ (pc = "assembler_returned" /\ RemainingIndices = <<>>)
         => recommendation \in FallbackChoices(final_filtered)

\* A reply without a valid index went to the fallback selector, which chose
\* among the candidates.
C15_Witness ==
    /\ pc = "assembler_returned"
    /\ RemainingIndices = <<>>
    /\ final_filtered # <<>>
    /\ recommendation # None
    /\ recommendation \in FallbackChoices(final_filtered)

\* C16: the fallback selector returns None for an empty list, the one entry
\* with priority_index 0 for a list of one entry, and for every longer list
\* two candidates from two different positions of the list with
\* priority_index 0, whatever the random bonus.
C16_FallbackTotal ==
    pc = "fallback_returned"
        => IF final_filtered = <<>> THEN recommendation = None
           ELSE /\ recommendation # None
                /\ recommendation.priority_index = 0
                /\ IF Len(final_filtered) = 1
                   THEN recommendation.restaurants = <<RestaurantCard(final_filtered[1])>>
                   ELSE \E i, j \in 1..Len(final_filtered) :
                            /\ i # j
                            /\ recommendation.restaurants
                                   = <<RestaurantCard(final_filtered[i]),
                                       RestaurantCard(final_filtered[j])>>

\* The fallback selector chose two of three candidates.
C16_Witness ==
    /\ pc = "fallback_returned"
    /\ Len(final_filtered) = 3
    /\ recommendation # None
    /\ Len(recommendation.restaurants) = 2
    /\ recommendation.restaurants[1] # recommendation.restaurants[2]

(***************************************************************************)
(* Claims about the result of get_recommendation                           *)
(***************************************************************************)

\* C17: every result with restaurants that get_recommendation returns, from
\* the parser or from the fallback selector, has one or two candidates and a
\* priority_index that is an index into them, so that restaurants[priority_index]
\* and, for two candidates, restaurants[1 - priority_index] exist.
C17_ResultInvariant ==
    ReturnedRestaurants
        => /\ Len(recommendation.restaurants) \in {1, 2}
           /\ recommendation.priority_index \in 0..(Len(recommendation.restaurants) - 1)
           /\ Len(recommendation.restaurants) = 2
                => (1 - recommendation.priority_index) \in 0..1

\* The parser returned two candidates with the second as the priority.
C17_Witness ==
    /\ ReturnedRestaurants
    /\ oracle_outcome = "reply"
    /\ ParseDualRecommendation(Strip(choice_text), final_filtered) = recommendation
    /\ Len(recommendation.restaurants) = 2
    /\ recommendation.priority_index = 1

\* The card of the result was built from an entry of the list submitted to
\* the oracle.
CardOfSubmitted(card) ==
    \E i \in 1..Len(final_filtered) : RestaurantCard(final_filtered[i]) = card

\* C18: when the call of the oracle times out or fails, get_recommendation
\* returns what the fallback selector returns for the list that was
\* submitted to the oracle, so every returned candidate is an entry of that
\* list.
C18_FaultFallsBackOnSubmitted ==
    (pc = "returned" /\ oracle_outcome \in {"timeout", "exception"})
        => /\ recommendation \in FallbackChoices(final_filtered)
           /\ recommendation # None
           /\ \A n \in 1..Len(recommendation.restaurants) :
                  CardOfSubmitted(recommendation.restaurants[n])

(***************************************************************************)
(* Claims about the conversation                                           *)
(***************************************************************************)

\* C12: the type filter (old or enhanced) that processes a request is a
\* function of the configuration, and of nothing stored between requests:
\* every request of every user was processed by the filter that the flag
\* 'enabled' of the configuration names, so two requests of one user under
\* one configuration were processed by the same one.
C12_StrategyStateless ==
    \A user_id \in DOMAIN pipeline_log :
        pipeline_log[user_id] = {IF config.enabled THEN "enhanced" ELSE "old"}

\* A second request of a user who got a recommendation before waits for the
\* oracle.
C12_Witness ==
    /\ pc = "awaiting_oracle"
    /\ effective_user \in DOMAIN user_last_recommendation
    /\ effective_user \in DOMAIN pipeline_log
    /\ pipeline_log[effective_user] = {"old"}

\* The message of line 1671.
NothingFound == <<[kind |-> "nothing_found"]>>

\* C19: with an empty catalog, a message of a user in the stage
\* waiting_request, whatever its text, makes get_recommendation return None
\* without a call of the oracle; the handler does not raise, the user gets
\* the nothing-found message and stays in the stage waiting_request.
C19_EmptyCatalog ==
    [][\A user_id \in Users, message_text \in Texts :
           (/\ restaurants_data = <<>>
            /\ user_id \in DOMAIN user_states
            /\ user_states[user_id] = "waiting_request"
            /\ HandleMessage(user_id, message_text))
               => /\ recommendation' = None
                  /\ oracle_calls' = 0
                  /\ pc' = "idle"
                  /\ ~handler_raised'
                  /\ sent' = NothingFound
                  /\ user_states' = user_states]_vars

\* With an empty catalog, a request naming a dish got the nothing-found
\* message.
C19_Witness ==
    /\ restaurants_data = <<>>
    /\ user_request = <<1073,1091,1088,1075,1077,1088>>      \* 'бургер'
    /\ recommendation = None
    /\ sent = NothingFound
    /\ user_states[effective_user] = "waiting_request"

\* The text is not an integer from 1 to 10.
NotARating(message_text) ==
    ~(/\ message_text # <<>>
      /\ \A i \in 1..Len(message_text) : IsDigit(message_text[i])
      /\ ParseInt(message_text) \in 1..10)

\* The messages of lines 1557 and 1676.
CorrectivePrompts == {<<[kind |-> "number_1_to_10"]>>, <<[kind |-> "rate_previous"]>>}

\* C20: for a user in the stage waiting_rating, a message that is not an
\* integer from 1 to 10 produces a corrective prompt and leaves the stage,
\* the last recommendation and the pending rating data of the user as they
\* were.
C20_RatingMisuse ==
    [][\A user_id \in Users, message_text \in Texts :
           (/\ user_id \in DOMAIN user_states
            /\ user_states[user_id] = "waiting_rating"
            /\ NotARating(message_text)
            /\ HandleMessage(user_id, message_text))
               => /\ sent' \in CorrectivePrompts
                  /\ ~handler_raised'
                  /\ user_states' = user_states
                  /\ user_last_recommendation' = user_last_recommendation
                  /\ user_rating_data' = user_rating_data]_vars


(***************************************************************************)
(* Claims about the stages of the conversation                             *)
(***************************************************************************)

\* The entry of a dict for a user: its value in a tuple, the empty tuple
\* when the user has none.
Entry(d, user_id) == IF user_id \in DOMAIN d THEN <<d[user_id]>> ELSE <<>>

\* What the three globals hold for the user.
UserData(user_id) ==
    <<Entry(user_states, user_id),
      Entry(user_last_recommendation, user_id),
      Entry(user_rating_data, user_id)>>

\* C21: every step of a handler, start or handle_message up to its await or
\* from its await to its end, that runs for a user A leaves the stage, the
\* last recommendation and the pending rating data of every other user B as
\* they were, in whatever order the handlers of the users follow each other.
C21_PerUserIsolation ==
    [][\A a, b \in Users :
           (a # b /\ effective_user' = a) => UserData(b)' = UserData(b)]_vars

\* The handler of user 1 has delivered a recommendation while user 2 waits
\* to rate an earlier one.
C21_Witness ==
    /\ pc = "idle"
    /\ effective_user = 1
    /\ Entry(user_states, 1) = <<"waiting_rating">>
    /\ Entry(user_states, 2) = <<"waiting_rating">>
    /\ 2 \in DOMAIN user_last_recommendation
    /\ 1 \in DOMAIN user_last_recommendation

\* get_recommendation has returned a result with restaurants to the handler,
\* which has run to its end.
HandlerGotRestaurants ==
    /\ pc = "idle"
    /\ recommendation # None
    /\ "restaurants" \in DOMAIN recommendation

\* The candidate the result names as the priority.
MainRestaurant == recommendation.restaurants[recommendation.priority_index + 1]

\* C23: a request that yields a recommendation delivers it, records its
\* priority candidate as the last recommendation of the user and moves the
\* stage to waiting_rating, whether there is an analytics sheet or not and
\* whether the row was appended or not; the handler does not raise.
C23_AnalyticsInvisible ==
    HandlerGotRestaurants
        => /\ ~handler_raised
           /\ Entry(user_states, effective_user) = <<"waiting_rating">>
           /\ Entry(user_last_recommendation, effective_user) = <<MainRestaurant.name>>
           /\ Len(sent) = 2
           /\ sent[1].kind = "recommendation"
           /\ sent[1].shown[1] = MainRestaurant
           /\ sent[2] = [kind |-> "rate_request", restaurant_name |-> MainRestaurant.name]

\* A recommendation was delivered although append_row failed: there is a
\* sheet and no row in it.
C23_Witness ==
    /\ HandlerGotRestaurants
    /\ analytics_sheet = "sheet"
    /\ analytics_rows = <<>>
    /\ Entry(user_states, effective_user) = <<"waiting_rating">>
    /\ sent[1].kind = "recommendation"

\* The stage of the user 1, "none" before the first /start.
Stage == IF 1 \in DOMAIN user_states THEN user_states[1] ELSE "none"

\* The moves of the stage of user 1 in one step of a handler.
StageMove ==
    LET before == Stage
        after == Stage'
    IN  \/ after = before
        \* /start
        \/ /\ after = "waiting_request"
           /\ sent' = <<[kind |-> "greeting"]>>
        \* a recommendation was delivered
        \/ /\ before = "waiting_request"
           /\ after = "waiting_rating"
           /\ Len(sent') = 2
           /\ sent'[1].kind = "recommendation"
           /\ Entry(user_last_recommendation, 1)' = <<sent'[2].restaurant_name>>
        \* a rating from 1 to 10 was given for the last recommendation
        \/ /\ before = "waiting_rating"
           /\ after = "waiting_explanation"
           /\ 1 \in DOMAIN user_rating_data'
           /\ user_rating_data'[1].rating \in 1..10
           /\ <<user_rating_data'[1].restaurant_name>> = Entry(user_last_recommendation, 1)
        \* an explanation was given for the recorded rating
        \/ /\ before = "waiting_explanation"
           /\ after = "completed"
           /\ 1 \in DOMAIN user_rating_data
           /\ user_rating_data[1].rating \in 1..10
           /\ <<user_rating_data[1].restaurant_name>> = Entry(user_last_recommendation, 1)
           /\ sent' = <<[kind |-> "thanks", rating |-> user_rating_data[1].rating]>>

\* C26: over every sequence of /start commands and messages of one user the
\* stage moves only from waiting_request to waiting_rating when a
\* recommendation is delivered, from waiting_rating to waiting_explanation
\* when a rating from 1 to 10 is given, from waiting_explanation to
\* completed when an explanation is given, and to waiting_request by /start;
\* completed is reached only with a rating from 1 to 10 recorded for the
\* last recommendation, and in completed only /start changes the stage.
C26_StageOrdering == [][StageMove]_vars

\* A user who went through all the stages sent one more message and stayed
\* in the stage completed.
C26_Witness ==
    /\ Stage = "completed"
    /\ updates = MaxTurns
    /\ sent = <<[kind |-> "start_again"]>>

\* The stage of the user has the data it needs.
StageHasData(user_id) ==
    /\ user_states[user_id] = "waiting_explanation"
         => /\ user_id \in DOMAIN user_rating_data
            /\ user_rating_data[user_id].rating \in 1..10
            /\ user_rating_data[user_id].restaurant_name # <<>>
    /\ user_states[user_id] = "waiting_rating"
         => user_id \in DOMAIN user_last_recommendation

\* C27: in every reachable state a user in the stage waiting_explanation has
\* pending rating data with a rating from 1 to 10 and a restaurant name, and
\* a user in the stage waiting_rating has a last recommendation; no handler
\* ends without a message unless it raised (the branch of line 1674 for
\* waiting_explanation without rating data is not taken), and every message
\* of a user in waiting_explanation ends in completed.
C27_StageData ==
    /\ [](/\ \A user_id \in DOMAIN user_states : StageHasData(user_id)
          /\ (pc = "idle" /\ updates > 0) => (sent # <<>> \/ handler_raised))
    /\ [][\A message_text \in Texts :
              (Stage = "waiting_explanation" /\ HandleMessage(1, message_text))
                  => Stage' = "completed"]_vars

\* An explanation was given and the conversation is completed.
C27_Witness ==
    /\ Stage = "completed"
    /\ Len(sent) = 1
    /\ sent[1].kind = "thanks"
    /\ 1 \notin DOMAIN user_rating_data

(***************************************************************************)
(* Claims about the detection of the establishment type                    *)
(***************************************************************************)

\* What the matcher finds in the request for the keywords of the n-th type
\* of the enhanced filter.
TypeDetection(n) ==
    EnhancedKeywordMatch(user_request, enhanced_type_keywords[n].user_keywords)

\* The types whose keywords match the request.
MatchedTypes == {n \in 1..Len(enhanced_type_keywords) : TypeDetection(n).any_match}

\* Those of them that match with the highest confidence.
BestMatchedTypes ==
    {n \in MatchedTypes :
        \A m \in MatchedTypes :
            TypeDetection(m).max_confidence <= TypeDetection(n).max_confidence}

\* The entries of the list whose type matches a label of one of the types,
\* in the order of the list.
EntriesOfTypes(types) ==
    SelectSeq(restaurant_list,
              LAMBDA restaurant :
                  \E n \in types :
                      TypeMatch(restaurant, enhanced_type_keywords[n].establishment_types))

\* The enhanced filter was called with a request that matches the keywords
\* of more than one type.
SeveralTypesDetected ==
    /\ filter_op = "enhanced_type"
    /\ Cardinality(MatchedTypes) > 1

\* Every entry of the list has a type label (an entry without one matches
\* every type).
AllTyped == \A i \in 1..Len(restaurant_list) : EstablishmentType(restaurant_list[i]) # <<>>

\* C24 as stated: when the request matches the keyword lists of more than
\* one establishment type, the enhanced type filter filters by the
\* best-matching (highest confidence) type only: it returns the entries of
\* that type, when there are any, not those of the union of the matched
\* types. Stated for lists whose entries all have a type label.
C24_BestMatchWins ==
    (SeveralTypesDetected /\ AllTyped /\ EntriesOfTypes(BestMatchedTypes) # <<>>)
        => Returned = EntriesOfTypes(BestMatchedTypes)

\* C24 as the code has it: when the request matches the keyword lists of
\* more than one establishment type, the enhanced type filter returns the
\* entries whose type matches a label of any of the matched types, in the
\* order of the list, whatever the confidence of each match; the confidence
\* is logged and decides nothing.
C24_UnionOfMatchedTypes ==
    (SeveralTypesDetected /\ EntriesOfTypes(MatchedTypes) # <<>>)
        => Returned = EntriesOfTypes(MatchedTypes)

\* Two types are detected with different confidence, and an entry of the
\* type with the lower confidence is returned along with one of the best.
C24_Witness ==
    /\ SeveralTypesDetected
    /\ AllTyped
    /\ BestMatchedTypes # MatchedTypes
    /\ Len(Returned) = 2
    /\ Len(EntriesOfTypes(BestMatchedTypes)) = 1
    /\ Returned = EntriesOfTypes(MatchedTypes)

(***************************************************************************)
(* Claims about the call of the oracle and the result                      *)
(***************************************************************************)

\* The reply of the oracle, parsed against the list submitted to it.
ParsedReply == ParseDualRecommendation(Strip(choice_text), final_filtered)

\* get_recommendation returned after the call of the oracle timed out,
\* failed, or gave a reply the parser returns None for.
ReturnedAfterBadOracle ==
    /\ pc = "returned"
    /\ \/ oracle_outcome \in {"timeout", "exception"}
       \/ oracle_outcome = "reply" /\ ParsedReply = None

\* C25: in every execution of get_recommendation the oracle is called at
\* most once; after a timeout, a failure or a reply that cannot be parsed
\* the result is the choice of the fallback selector (over the submitted
\* list for a reply, over the catalog for a timeout or failure) and the
\* count of calls is still one.
C25_SingleOracleAttempt ==
    /\ oracle_calls <= 1
    /\ pc = "awaiting_oracle" => oracle_calls = 1
    /\ ReturnedAfterBadOracle
         => /\ oracle_calls = 1
            /\ recommendation
                   \in IF oracle_outcome = "reply" THEN FallbackChoices(final_filtered)
                       ELSE FallbackChoices(restaurants_data)

\* The call timed out and the fallback selector chose, after one call.
C25_Witness ==
    /\ pc = "returned"
    /\ oracle_outcome = "timeout"
    /\ oracle_calls = 1
    /\ recommendation # None
    /\ "restaurants" \in DOMAIN recommendation

\* C29: with a non-empty catalog get_recommendation returns, for every
\* request and whatever the oracle does (a reply that parses, one that does
\* not, a timeout, an exception), a result with restaurants or a
\* dish-not-found result, never None; the list submitted to the oracle is
\* never empty.
C29_NeverNone ==
    restaurants_data # <<>>
        => /\ pc = "awaiting_oracle" => final_filtered # <<>>
           /\ pc = "returned"
                => /\ recommendation # None
                   /\ recommendation # NotReturned
                   /\ \/ "restaurants" \in DOMAIN recommendation
                      \/ "dish_not_found" \in DOMAIN recommendation

\* A reply that cannot be parsed, for a request naming a dish that one entry
\* of the catalog has: the fallback selector chose.
C29_Witness ==
    /\ pc = "returned"
    /\ oracle_outcome = "reply"
    /\ ParsedReply = None
    /\ DishGate.dishes # <<>>
    /\ recommendation # None
    /\ "restaurants" \in DOMAIN recommendation

\* C30: whenever a returned result has two candidates, they are two
\* different entries of the catalog, for every reply of the oracle - also
\* one that names the same index twice - and for the fallback selector.
C30_TwoDifferentCandidates ==
    (ReturnedRestaurants /\ Len(recommendation.restaurants) = 2)
        => recommendation.restaurants[1] # recommendation.restaurants[2]

(***************************************************************************)
(* Claims about the dish gate and the hard filter                          *)
(***************************************************************************)

\* The menu of the entry holds a keyword of the dish as a whole word.
MenuNamesDish(restaurant, dish) ==
    \E k \in 1..Len(GetDishKeywords(dish)) :
        BoundarySearch(Lower(GetDishKeywords(dish)[k]), Lower(Get(restaurant, K_menu, <<>>)))

\* C28: whenever _check_dish_availability reports that a dish of the request
\* is available, the hard filter over the catalog keeps at least one entry,
\* with the flag regex_boundaries on and off, so the branch of lines
\* 1120-1126 is not taken; the two functions read the same keywords for every
\* dish.
C28_GateAndFilterAgree ==
    /\ \A n \in 1..Len(check_food_keywords) :
           GetDishKeywords(check_food_keywords[n].dish) = check_food_keywords[n].keywords
    /\ pc = "hard_filtered" => final_filtered # <<>>

\* With regex_boundaries off the hard filter kept an entry whose menu holds
\* the keyword of the dish only inside a longer word.
C28_Witness ==
    /\ pc = "hard_filtered"
    /\ ~config.regex_boundaries
    /\ Len(restaurants_data) = 2
    /\ Len(final_filtered) = 1
    /\ \A d \in 1..Len(filter_result.dishes) :
           ~MenuNamesDish(final_filtered[1], filter_result.dishes[d])

====
